---- MODULE Spec2Model ----
(***************************************************************************)
(* Columnar-transposition cryptanalysis engine of darboledas/criptoclasica *)
(*   src/transposition/transposition_word.py  (crib search)                *)
(*   src/transposition/auto_transpo.py        (beam search)                *)
(* Texts are sequences of one-character strings.  Column indices keep the  *)
(* source's 0-based values; a Python list of n columns is a TLA+ sequence  *)
(* whose element c+1 is column c.                                          *)
(***************************************************************************)
EXTENDS Integers, Sequences, FiniteSets, TLC

(***************************************************************************)
(* Bounds of the model                                                     *)
(***************************************************************************)
\* longest plaintext over the two-letter alphabet in the codec specification
CodecMaxLen == 6
\* largest column count in the codec specification
CodecMaxK == 4
\* largest text length in the geometry specification
GeomMaxN == 32
\* largest column count in the geometry specification
GeomMaxK == 5
\* longest ciphertext over the two-letter alphabet in the crib search
CribMaxLen == 4
\* largest column count swept by the crib search
CribMaxK == 3
\* the small permutation ceiling (--maxperms) that forces sampling
SmallMaxPerms == 2
\* longest ciphertext handed to the beam search
BeamMaxLen == 6
\* largest column count handed to the beam search
BeamMaxN == 2
\* largest column count in the sampling specification
SampleMaxK == 4
\* largest small permutation ceiling in the sampling specification
SampleMaxPerms == 3
\* longest text given to the cipher tool
ToolMaxLen == 4
\* longest key over the two-letter alphabet given to the cipher tool
ToolMaxKey == 3
\* longest text scored in the scoring specification
ScoreMaxLen == 4
\* most rows of a trigram file in the scoring specification
TriMaxFilas == 2

\* pruning inputs: the extensions of the first step of up to this many columns
PodaMaxN == 3

(***************************************************************************)
(* Program constants                                                       *)
(***************************************************************************)
\* default of --maxperms
DefaultMaxPerms == 200000
\* sys.exit(2) after "SIN EXITO"
ExitSinExito == 2
\* exit status of sys.exit("Error: ...") and of an uncaught exception
ExitError == 1
\* exit status of a run that reaches the end of main
ExitOk == 0
\* search_n's floor on the shortest column
MinColumna == 3

(***************************************************************************)
(* Generic helpers for Python lists and strings                            *)
(***************************************************************************)
Min2(a, b) == IF a <= b THEN a ELSE b

Max2(a, b) == IF a >= b THEN a ELSE b

\* Python s[a:b] for 0 <= a, 0 <= b (slices are clipped, never raise)
Slice(s, a, b) ==
    IF a >= Min2(b, Len(s)) THEN <<>> ELSE SubSeq(s, a + 1, Min2(b, Len(s)))

\* Python s[::-1] / reversed(s)
Reverse(s) == [i \in 1..Len(s) |-> s[Len(s) + 1 - i]]

\* Python "w in s" for strings: w occurs as a contiguous substring of s
Contains(s, w) ==
    \E i \in 0..(Len(s) - Len(w)) : SubSeq(s, i + 1, i + Len(w)) = w

\* Python list indexing with a possibly negative index: lst[i] is lst[i+n]
PyIdx(i, n) == IF i < 0 THEN i + n ELSE i

\* lst[i] raises IndexError unless -n <= i < n
IdxOk(i, n) == (0 - n) <= i /\ i < n

\* max(len(c) for c in cols)
MaxLenOf(cols) ==
    IF Len(cols) = 0 THEN 0
    ELSE CHOOSE m \in {Len(cols[c]) : c \in 1..Len(cols)} :
            \A c \in 1..Len(cols) : Len(cols[c]) <= m

\* sum of a sequence of integers
RECURSIVE SumSeq(_)
SumSeq(s) == IF s = <<>> THEN 0 ELSE s[1] + SumSeq(Tail(s))

\* all texts over alphabet S with length in lo..hi
Texts(S, lo, hi) == UNION {[1..n -> S] : n \in lo..hi}

(***************************************************************************)
(* normalizar_AZ: upper-case, strip everything that is not A-Z             *)
(***************************************************************************)
AZ == {"A","B","C","D","E","F","G","H","I","J","K","L","M",
       "N","O","P","Q","R","S","T","U","V","W","X","Y","Z"}

UpperSeq == <<"A","B","C","D","E","F","G","H","I","J","K","L","M",
              "N","O","P","Q","R","S","T","U","V","W","X","Y","Z">>

LowerSeq == <<"a","b","c","d","e","f","g","h","i","j","k","l","m",
              "n","o","p","q","r","s","t","u","v","w","x","y","z">>

LowerSet == {LowerSeq[i] : i \in 1..26}

UpperOf == [ch \in LowerSet |-> UpperSeq[CHOOSE i \in 1..26 : LowerSeq[i] = ch]]

\* str.upper() on one ASCII character
Upper(ch) == IF ch \in LowerSet THEN UpperOf[ch] ELSE ch

\* transposition_word.normalizar_AZ (ASCII symbols; "-" stands for any symbol
\* that is dropped)
normalizar_AZ(s) ==
    IF s = <<>> THEN <<>>
    ELSE SelectSeq([i \in 1..Len(s) |-> Upper(s[i])], LAMBDA ch : ch \in AZ)

IsAZ(s) == \A i \in 1..Len(s) : s[i] \in AZ

(***************************************************************************)
(* Column geometry                                                         *)
(***************************************************************************)
\* transposition_word.longitudes_columnas raises (ZeroDivisionError on
\* ncols = 0, IndexError on an out-of-range column in the read rule)
LongitudesRaises(N, ncols, order_read0, long_rule) ==
    \/ ncols = 0
    \/ /\ long_rule = "read"
       /\ \E j \in 1..(N % ncols) :
             j > Len(order_read0) \/ ~IdxOk(order_read0[j], ncols)

\* a mutant of the geometry: the remainder loop runs once too often
\* (range(r + 1) instead of range(r)) whenever there is a remainder
longitudes_columnas_OffByOne(N, ncols, order_read0, long_rule) ==
    LET q == N \div ncols
        r == N % ncols
        r1 == IF r > 0 THEN r + 1 ELSE 0
    IN  [c \in 1..ncols |->
            IF long_rule = "read"
            THEN q + Cardinality({j \in 1..r1 :
                                     PyIdx(order_read0[j], ncols) = c - 1})
            ELSE q + (IF c - 1 < r1 THEN 1 ELSE 0)]

\* a mutant of the geometry: the read rule gives the extra
\* symbol to the columns read last instead of the columns read first
longitudes_columnas_LastRead(N, ncols, order_read0, long_rule) ==
    LET q == N \div ncols
        r == N % ncols
    IN  [c \in 1..ncols |->
            IF long_rule = "read"
            THEN q + Cardinality({j \in (ncols - r + 1)..ncols :
                                     PyIdx(order_read0[j], ncols) = c - 1})
            ELSE q + (IF c - 1 < ncols - r THEN 0 ELSE 1)]

\* transposition_word.longitudes_columnas (defined when it does not raise)
longitudes_columnas(N, ncols, order_read0, long_rule) ==
    LET q == N \div ncols
        r == N % ncols
    IN  [c \in 1..ncols |->
            IF long_rule = "read"
            THEN q + Cardinality({j \in 1..r :
                                     PyIdx(order_read0[j], ncols) = c - 1})
            ELSE q + (IF c - 1 < r THEN 1 ELSE 0)]

\* auto_transpo.longitudes_columnas
longitudes_columnas_auto(N, n) ==
    LET q == N \div n
        r == N % n
    IN  [c \in 1..n |-> q + (IF c - 1 < r THEN 1 ELSE 0)]

(***************************************************************************)
(* Decoder / re-encoder                                                    *)
(***************************************************************************)
\* row-major read of the columns, skipping a column that has no entry in a
\* row (transposition_word.py 141-147, auto_transpo.leer_por_filas)
leer_por_filas(cols) ==
    LET n == Len(cols)
        cells == [t \in 1..(MaxLenOf(cols) * n) |->
                     <<(t - 1) \div n, (t - 1) % n>>]
        keep == SelectSeq(cells, LAMBDA p : p[1] < Len(cols[p[2] + 1]))
    IN  [i \in 1..Len(keep) |-> cols[keep[i][2] + 1][keep[i][1] + 1]]

\* the loop "for idx in order0: cols[idx] = C[cursor:cursor+L]; cursor += L"
\* from position i of order0 on
RECURSIVE AssignCols(_, _, _, _, _, _)
AssignCols(C, order0, longs, i, cursor, cols) ==
    IF i > Len(order0) THEN cols
    ELSE LET idx == PyIdx(order0[i], Len(cols))
             L == longs[idx + 1]
         IN  AssignCols(C, order0, longs, i + 1, cursor + L,
                        [cols EXCEPT ![idx + 1] = Slice(C, cursor, cursor + L)])

\* descifrar_por_orden raises an exception
DescifrarRaises(ciphertext, read_order_1based, long_rule) ==
    LET n == Len(read_order_1based)
        order0 == [i \in 1..n |-> read_order_1based[i] - 1]
    IN  \/ LongitudesRaises(Len(normalizar_AZ(ciphertext)), n, order0, long_rule)
        \/ \E i \in 1..n : ~IdxOk(order0[i], n)

\* the mutant used for the decoding claims: the segments are handed to the
\* columns in natural order, ignoring the reading order
descifrar_por_orden_Natural(ciphertext, read_order_1based, long_rule, col_direction) ==
    LET C == normalizar_AZ(ciphertext)
        n == Len(read_order_1based)
        order0 == [i \in 1..n |-> read_order_1based[i] - 1]
        longs == longitudes_columnas(Len(C), n, order0, long_rule)
        cols0 == AssignCols(C, [i \in 1..n |-> i - 1], longs, 1, 0,
                            [c \in 1..n |-> <<>>])
        cols == IF col_direction = "up"
                THEN [c \in 1..n |-> Reverse(cols0[c])]
                ELSE cols0
    IN  leer_por_filas(cols)

\* transposition_word.descifrar_por_orden (defined when it does not raise)
descifrar_por_orden(ciphertext, read_order_1based, long_rule, col_direction) ==
    LET C == normalizar_AZ(ciphertext)
        n == Len(read_order_1based)
        order0 == [i \in 1..n |-> read_order_1based[i] - 1]
        longs == longitudes_columnas(Len(C), n, order0, long_rule)
        cols0 == AssignCols(C, order0, longs, 1, 0, [c \in 1..n |-> <<>>])
        cols == IF col_direction = "up"
                THEN [c \in 1..n |-> Reverse(cols0[c])]
                ELSE cols0
    IN  leer_por_filas(cols)

\* "for j in order0: out.extend(cols[j])" from position i of order0 on
RECURSIVE ConcatCols(_, _, _)
ConcatCols(cols, order0, i) ==
    IF i > Len(order0) THEN <<>>
    ELSE cols[PyIdx(order0[i], Len(cols)) + 1] \o ConcatCols(cols, order0, i + 1)

\* cifrar_por_orden_var raises an exception
CifrarRaises(plaintext, read_order_1based) ==
    LET n == Len(read_order_1based)
    IN  \/ n = 0 /\ normalizar_AZ(plaintext) # <<>>
        \/ \E i \in 1..n : ~IdxOk(read_order_1based[i] - 1, n)

\* a mutant of the encoder: the columns are always emitted top to bottom
cifrar_por_orden_var_SoloDown(plaintext, read_order_1based, col_direction) ==
    LET P == normalizar_AZ(plaintext)
        n == Len(read_order_1based)
        order0 == [i \in 1..n |-> read_order_1based[i] - 1]
        filled == [c \in 1..n |->
                     LET cnt == (Len(P) - (c - 1) + n - 1) \div n
                     IN  [t \in 1..cnt |-> P[(t - 1) * n + c]]]
    IN  ConcatCols(filled, order0, 1)

\* transposition_word.cifrar_por_orden_var (defined when it does not raise)
cifrar_por_orden_var(plaintext, read_order_1based, col_direction) ==
    LET P == normalizar_AZ(plaintext)
        n == Len(read_order_1based)
        order0 == [i \in 1..n |-> read_order_1based[i] - 1]
        \* cols[idx].append(ch); idx = (idx + 1) % n
        filled == [c \in 1..n |->
                     LET cnt == (Len(P) - (c - 1) + n - 1) \div n
                     IN  [t \in 1..cnt |-> P[(t - 1) * n + c]]]
        cols == IF col_direction = "up"
                THEN [c \in 1..n |-> Reverse(filled[c])]
                ELSE filled
    IN  ConcatCols(cols, order0, 1)

(***************************************************************************)
(* Keyword -> reading order                                                *)
(***************************************************************************)
\* position of a letter in the alphabet (string comparison on A-Z)
LetterIdxOf == [ch \in AZ |-> CHOOSE i \in 1..26 : UpperSeq[i] = ch]

LetterIdx(ch) == LetterIdxOf[ch]

\* transposition_word.keyword_to_order_read: 0-based positions of the
\* normalized letters; rank[i] is the 1-based rank of position i in the sort
\* by (letter, position), and the result lists the positions by rank
keyword_to_order_read(keyword) ==
    LET w == normalizar_AZ(keyword)
        n == Len(w)
        before(j, i) == \/ LetterIdx(w[j + 1]) < LetterIdx(w[i + 1])
                        \/ (w[j + 1] = w[i + 1] /\ j < i)
        rank == [i \in 0..(n - 1) |->
                    1 + Cardinality({j \in 0..(n - 1) : before(j, i)})]
    IN  [r \in 1..n |-> CHOOSE i \in 0..(n - 1) : rank[i] = r]

(***************************************************************************)
(* Crib search: probar_perm and the candidate sequence                     *)
(***************************************************************************)
\* the nested loops "for long_rule in long_rule_opts: for col_dir in
\* col_dir_opts" as the sequence of (long_rule, col_dir) pairs they visit
Variants(long_rule_opts, col_dir_opts) ==
    [t \in 1..(Len(long_rule_opts) * Len(col_dir_opts)) |->
        <<long_rule_opts[((t - 1) \div Len(col_dir_opts)) + 1],
          col_dir_opts[((t - 1) % Len(col_dir_opts)) + 1]>>]

\* a mutant of the verification: the re-encryption is not compared
Verifica_Always(cipher, plain, order1, col_dir) == TRUE

\* a mutant of the verification: only the lengths are compared
Verifica_SoloLongitud(cipher, plain, order1, col_dir) ==
    Len(cifrar_por_orden_var(plain, order1, col_dir)) = Len(normalizar_AZ(cipher))

\* probar_perm 185-186: re-encrypt the decode and compare with the
\* normalized ciphertext
Verifica(cipher, plain, order1, col_dir) ==
    cifrar_por_orden_var(plain, order1, col_dir) = normalizar_AZ(cipher)

\* a mutant of the early return: the variant loop goes on after a hit
ProbarReturns_Never(hit, stopfirst) == FALSE

\* probar_perm 188-189: "if stopfirst: return soluciones" after a hit
ProbarReturns(hit, stopfirst) == hit /\ stopfirst

\* probar_perm from position i of the variant sequence vs on; acc holds
\* soluciones, the variants evaluated so far, and whether a call raised
RECURSIVE ProbarLoop(_, _, _, _, _, _, _)
ProbarLoop(cipher, order1, crib, vs, i, stopfirst, acc) ==
    IF i > Len(vs) THEN acc
    ELSE
      LET long_rule == vs[i][1]
          col_dir == vs[i][2]
          seen == Append(acc.evaluated, <<order1, long_rule, col_dir>>)
      IN  IF DescifrarRaises(cipher, order1, long_rule)
          THEN [acc EXCEPT !.evaluated = seen, !.raised = TRUE]
          ELSE
            LET plain == descifrar_por_orden(cipher, order1, long_rule, col_dir)
                hit == Contains(plain, crib)
                          /\ Verifica(cipher, plain, order1, col_dir)
                acc2 == [acc EXCEPT
                           !.evaluated = seen,
                           !.soluciones =
                               IF hit
                               THEN Append(@, [order |-> order1,
                                               long_rule |-> long_rule,
                                               col_dir |-> col_dir,
                                               plain |-> plain])
                               ELSE @]
            IN  IF ProbarReturns(hit, stopfirst) THEN acc2
                ELSE ProbarLoop(cipher, order1, crib, vs, i + 1, stopfirst, acc2)

\* transposition_word.probar_perm
probar_perm(cipher, order1, crib, long_rule_opts, col_dir_opts, stopfirst) ==
    ProbarLoop(cipher, order1, crib, Variants(long_rule_opts, col_dir_opts), 1,
               stopfirst,
               [soluciones |-> <<>>, evaluated |-> <<>>, raised |-> FALSE])

\* concatenation of a sequence of sequences
RECURSIVE Flatten(_)
Flatten(ss) == IF ss = <<>> THEN <<>> ELSE ss[1] \o Flatten(Tail(ss))

\* elems without its i-th element
RemoveAt(elems, i) == SubSeq(elems, 1, i - 1) \o SubSeq(elems, i + 1, Len(elems))

\* itertools.permutations(elems): all orderings, lexicographic by position
RECURSIVE ItertoolsPermutations(_)
ItertoolsPermutations(elems) ==
    IF elems = <<>> THEN << <<>> >>
    ELSE Flatten([i \in 1..Len(elems) |->
                    LET rest == ItertoolsPermutations(RemoveAt(elems, i))
                    IN  [t \in 1..Len(rest) |-> <<elems[i]>> \o rest[t]]])

\* random.seed(42); random.sample(elems, k) repeated: the draws CPython's
\* generator produces for elems = 1..k (the first SampleTableLen of them)
SampleTable ==
    << << <<1>>, <<1>>, <<1>>, <<1>>, <<1>>, <<1>> >>,
       << <<1,2>>, <<2,1>>, <<1,2>>, <<1,2>>, <<2,1>>, <<1,2>> >>,
       << <<3,1,2>>, <<3,2,1>>, <<1,3,2>>, <<3,1,2>>, <<1,3,2>>, <<1,3,2>> >>,
       << <<1,4,2,3>>, <<2,1,3,4>>, <<4,1,3,2>>, <<2,1,3,4>>, <<4,1,2,3>>,
          <<1,4,2,3>> >>,
       << <<1,5,3,2,4>>, <<2,5,3,1,4>>, <<5,4,1,3,2>>, <<2,5,3,1,4>>,
          <<5,4,1,2,3>>, <<1,2,3,4,5>> >> >>

\* k! as explorar_permutaciones 203-205 computes it
RECURSIVE Factorial(_)
Factorial(k) == IF k < 2 THEN 1 ELSE k * Factorial(k - 1)

\* a mutant of the candidate sequence: exhaustive enumeration regardless of
\* the ceiling
Candidatos_NoCeiling(k, maxperms) ==
    ItertoolsPermutations([i \in 1..k |-> i])

\* explorar_permutaciones 201-211: the candidate sequence for k columns
Candidatos(k, maxperms) ==
    IF Factorial(k) <= maxperms
    THEN ItertoolsPermutations([i \in 1..k |-> i])
    ELSE SubSeq(SampleTable[k], 1, maxperms)

(***************************************************************************)
(* Trigram scoring (auto_transpo.py)                                       *)
(* A score is a record [u, n, d] standing for the float u * 5e8 + n/(2d):  *)
(* u counts the -1e9 sentinel in units of 5e8, n is a sum of table values  *)
(* in halves (-9.0 is -18, -2.5 is -5, -10.5 is -21) and d the divisor.    *)
(***************************************************************************)
\* cargar_trigramas(None) 96: the hard-coded common trigrams
Comunes ==
    {<<"Q","U","E">>, <<"E","N","T">>, <<"L","O","S">>, <<"L","A","S">>,
     <<"E","S","T">>, <<"N","T","E">>, <<"C","O","N">>, <<"P","A","R">>,
     <<"A","R","A">>, <<"I","O","N">>, <<"A","D","O">>}

\* TRI.get(tri, TRI_DEF) for the fallback table built by
\* cargar_trigramas(None), in halves
TriGet(tri) ==
    IF tri \in Comunes THEN -5
    ELSE IF IsAZ(tri) THEN -18
    ELSE -21

\* sum of the table values of the windows i..Len(s)-2
RECURSIVE TriSum(_, _)
TriSum(s, i) ==
    IF i > Len(s) - 2 THEN 0
    ELSE TriGet(SubSeq(s, i, i + 2)) + TriSum(s, i + 1)

\* auto_transpo.score_text: the sentinel -1e9 below 3 symbols
score_text(s) ==
    IF Len(s) < 3 THEN [u |-> -2, n |-> 0, d |-> 1]
    ELSE [u |-> 0, n |-> TriSum(s, 1), d |-> 1]

\* sc / m for a score_text result and a divisor m >= 1 (a sentinel is only
\* ever divided by 1 or 2)
ScoreDiv(sc, m) ==
    IF sc.u # 0 THEN [u |-> sc.u \div m, n |-> 0, d |-> 1]
    ELSE [u |-> 0, n |-> sc.n, d |-> sc.d * m]

\* punt + pscore
ScoreAdd(a, b) ==
    [u |-> a.u + b.u, n |-> a.n * b.d + b.n * a.d, d |-> a.d * b.d]

\* a < b on floats
ScoreLess(a, b) ==
    \/ a.u < b.u
    \/ a.u = b.u /\ a.n * b.d < b.n * a.d

\* lst.sort(key=..., reverse=True): descending and stable, sc(x) the key
SortDesc(lst, sc(_)) ==
    LET pos(i) == 1 + Cardinality({j \in 1..Len(lst) :
                        \/ ScoreLess(sc(lst[i]), sc(lst[j]))
                        \/ (/\ ~ScoreLess(sc(lst[j]), sc(lst[i]))
                            /\ j < i)})
    IN  [r \in 1..Len(lst) |-> lst[CHOOSE i \in 1..Len(lst) : pos(i) = r]]

\* lst[:m]
Take(lst, m) == SubSeq(lst, 1, Min2(m, Len(lst)))

\* min(longs)
MinOf(longs) ==
    CHOOSE m \in {longs[c] : c \in 1..Len(longs)} :
        \A c \in 1..Len(longs) : m <= longs[c]

(***************************************************************************)
(* Beam search (auto_transpo.py)                                           *)
(***************************************************************************)
\* auto_transpo.asignar_columnas
asignar_columnas(cipher, n, orden_0) ==
    AssignCols(cipher, orden_0, longitudes_columnas_auto(Len(cipher), n), 1, 0,
               [c \in 1..n |-> <<>>])

\* beam_search 157: the columns not yet in orden, ascending
Restantes(n, orden) ==
    SelectSeq([i \in 1..n |-> i - 1],
              LAMBDA c : \A t \in 1..Len(orden) : orden[t] # c)

\* a mutant of the extension: the cursor is not advanced past the segment
Extiende_SinAvance(cipher, longs, e, idx) ==
    LET L == longs[idx + 1]
    IN  [orden |-> Append(e.orden, idx),
         cols |-> [e.cols EXCEPT ![idx + 1] = Slice(cipher, e.cursor, e.cursor + L)],
         cursor |-> e.cursor,
         punt |-> e.punt]

\* beam_search 159-164: the extension of one state by column idx
Extiende(cipher, longs, e, idx) ==
    LET L == longs[idx + 1]
    IN  [orden |-> Append(e.orden, idx),
         cols |-> [e.cols EXCEPT ![idx + 1] = Slice(cipher, e.cursor, e.cursor + L)],
         cursor |-> e.cursor + L,
         punt |-> e.punt]

\* beam_search 167: min(len(cols2[i]) for i in orden2)
MinRows(x) ==
    CHOOSE m \in {Len(x.cols[x.orden[t] + 1]) : t \in 1..Len(x.orden)} :
        \A t \in 1..Len(x.orden) : m <= Len(x.cols[x.orden[t] + 1])

\* a mutant of the partial read: only the assigned columns are indexed
ParcialRaises_AssignedOnly(x) == FALSE

\* beam_search 168-172: cols2[c][r] is read for every c in range(n) and
\* every r < min_rows, so it raises IndexError when some column (assigned or
\* not) is shorter than min_rows
ParcialRaises(x) ==
    \E c \in 1..Len(x.cols) : Len(x.cols[c]) < MinRows(x)

\* beam_search 168-172 when it does not raise
Parcial(x) ==
    LET n == Len(x.cols)
    IN  [t \in 1..(MinRows(x) * n) |->
            x.cols[((t - 1) % n) + 1][((t - 1) \div n) + 1]]

\* beam_search 173-175: the scored extension
Puntuada(x) ==
    [x EXCEPT !.punt =
        ScoreAdd(@, ScoreDiv(score_text(Parcial(x)), Max2(1, Len(Parcial(x)))))]

\* beam_search 155-175: every extension of every state, in generation order
Extensiones(cipher, n, longs, estados_) ==
    Flatten([s \in 1..Len(estados_) |->
        LET rest == Restantes(n, estados_[s].orden)
        IN  [t \in 1..Len(rest) |-> Extiende(cipher, longs, estados_[s], rest[t])]])

\* a mutant of the pruning: equal scores come out in reverse generation
\* order (as sorted(...)[::-1] would leave them)
Poda_EmpatesInvertidos(nuevos, beam) ==
    Take(SortDesc(Reverse(nuevos), LAMBDA x : x.punt), beam)

\* beam_search 177-178: nuevos.sort(key=punt, reverse=True); nuevos[:beam]
Poda(nuevos, beam) == Take(SortDesc(nuevos, LAMBDA x : x.punt), beam)

\* a permutation of 1..k as a 1-based reading order
Orders1(k) == Permutations(1..k)

(***************************************************************************)
(* auto_transpo.py: normalization and keyword -> reading order             *)
(***************************************************************************)
\* auto_transpo.normalizar: strip marks, upper-case, keep ascii_uppercase
normalizar(texto) ==
    SelectSeq([i \in 1..Len(texto) |-> Upper(texto[i])], LAMBDA ch : ch \in AZ)

\* tuple comparison of two (letter, position) pairs
ParMenor(a, b) ==
    \/ LetterIdx(a[1]) < LetterIdx(b[1])
    \/ (a[1] = b[1] /\ a[2] < b[2])

\* sorted(...) on (letter, position) pairs, by insertion
RECURSIVE SortedPares(_)
SortedPares(ps) ==
    IF ps = <<>> THEN <<>>
    ELSE LET rest == SortedPares(Tail(ps))
             lo == SelectSeq(rest, LAMBDA q : ParMenor(q, Head(ps)))
             hi == SelectSeq(rest, LAMBDA q : ~ParMenor(q, Head(ps)))
         IN  lo \o <<Head(ps)>> \o hi

\* a mutant of the keyword order: the ranks themselves, 0-based, are
\* returned instead of the positions by rank
keyword_to_order_read_auto_Rangos(keyword) ==
    LET w == normalizar(keyword)
        n == Len(w)
        pares == SortedPares([i \in 1..n |-> <<w[i], i - 1>>])
    IN  [i \in 1..n |-> (CHOOSE r \in 1..n : pares[r][2] = i - 1) - 1]

\* auto_transpo.keyword_to_order_read 204-212
keyword_to_order_read_auto(keyword) ==
    LET w == normalizar(keyword)
        n == Len(w)
        pares == SortedPares([i \in 1..n |-> <<w[i], i - 1>>])
        rank == [i \in 0..(n - 1) |-> CHOOSE r \in 1..n : pares[r][2] = i]
    IN  [r \in 1..n |-> CHOOSE i \in 0..(n - 1) : rank[i] = r]

(***************************************************************************)
(* State                                                                   *)
(***************************************************************************)
VARIABLES
    \* geometry specification: inputs and the two implementations' results
    g_N, g_k, g_order0, g_rule, g_longs, g_longs_auto, g_done,
    \* codec specification: plaintext, order, variant, encoded and decoded text
    c_P, c_order, c_lr, c_cd, c_enc, c_dec, c_pc,
    \* transposition_word.main: the parsed command line
    args,
    \* main's C, W and soluciones
    C, W, soluciones,
    \* the k sweep: loop variable of main, and inside explorar_permutaciones
    \* the candidate sequence, the position in it and the local soluciones
    k, perms, pi, sols_k,
    \* every (order, long_rule, col_dir) probar_perm has decoded so far
    evaluated,
    \* where main is, what it printed, its exit status, and what
    \* guardar_salida wrote as "Recifrado correcto" per solution
    pc, message, exit_status, recifrado,
    \* auto_transpo: the call made (search_n or beam_search, its arguments)
    b_args,
    \* search_n: loop variable n and candidatos
    n_cols, candidatos,
    \* beam_search: column count of the running call, estados, paso
    b_n, estados, paso,
    \* where the call is, what it returned, and the exception it raised
    b_pc, b_result, b_exc

geomVars == <<g_N, g_k, g_order0, g_rule, g_longs, g_longs_auto, g_done>>
codecVars == <<c_P, c_order, c_lr, c_cd, c_enc, c_dec, c_pc>>
cribVars == <<args, C, W, soluciones, k, perms, pi, sols_k, evaluated,
              pc, message, exit_status, recifrado>>
beamVars == <<b_args, n_cols, candidatos, b_n, estados, paso, b_pc, b_result,
              b_exc>>

VARIABLES
    \* auto_transpo.main: the parsed command line, where main is, what it
    \* wrote with escribir_salida or sys.exit, and its exit status
    a_argv, a_pc, a_salida, a_exit,
    \* candidate generation of explorar_permutaciones over a k sweep: the
    \* arguments, the running k, the state of the module-level random
    \* generator (draws since it was last seeded), the candidates drawn so
    \* far for this k, the finished calls, and the position
    r_args, r_k, r_rng, r_perms, r_hist, r_pc,
    \* transposicion.py and the keyword conversions: the key and text given,
    \* the numeric key, cifrar_columnar's and descifrar_columnar's results,
    \* the reading orders of both keyword_to_order_read, the calls made and
    \* the exception raised
    t_args, t_clave_num, t_enc, t_dec, t_sol, t_order_word, t_order_auto,
    t_done, t_exc,
    \* trigram model: the --trigrams argument and file, the module globals
    \* TRI and TRI_DEF, score_text's argument and result, and the position
    tri_args, TRI, TRI_DEF, s_in, s_out, s_pc

autoVars == <<a_argv, a_pc, a_salida, a_exit>>
sampleVars == <<r_args, r_k, r_rng, r_perms, r_hist, r_pc>>
toolVars == <<t_args, t_clave_num, t_enc, t_dec, t_sol, t_order_word, t_order_auto,
              t_done, t_exc>>
scoreVars == <<tri_args, TRI, TRI_DEF, s_in, s_out, s_pc>>
extVars == <<autoVars, sampleVars, toolVars, scoreVars>>
vars == <<geomVars, codecVars, cribVars, beamVars, extVars>>

None == "none"

GeomIdle ==
    /\ g_N = 0 /\ g_k = 0 /\ g_order0 = <<>> /\ g_rule = None
    /\ g_longs = <<>> /\ g_longs_auto = <<>> /\ g_done = {}

CodecIdle ==
    /\ c_P = <<>> /\ c_order = <<>> /\ c_lr = None /\ c_cd = None
    /\ c_enc = <<>> /\ c_dec = <<>> /\ c_pc = "idle"

CribIdle ==
    /\ args = [mode |-> "idle"]
    /\ C = <<>> /\ W = <<>> /\ soluciones = <<>>
    /\ k = 0 /\ perms = <<>> /\ pi = 0 /\ sols_k = <<>>
    /\ evaluated = <<>>
    /\ pc = "idle" /\ message = None /\ exit_status = -1 /\ recifrado = <<>>

BeamIdle ==
    /\ b_args = [entry |-> "idle"]
    /\ n_cols = 0 /\ candidatos = <<>>
    /\ b_n = 0 /\ estados = <<>> /\ paso = 0
    /\ b_pc = "idle" /\ b_result = <<>> /\ b_exc = None

AutoIdle ==
    /\ a_argv = [mode |-> "idle"]
    /\ a_pc = "idle" /\ a_salida = [texto |-> None, datos |-> <<>>] /\ a_exit = -1

SampleIdle ==
    /\ r_args = [kmin |-> 0, kmax |-> 0, maxperms |-> 0]
    /\ r_k = 0 /\ r_rng = 0 /\ r_perms = <<>> /\ r_hist = <<>>
    /\ r_pc = "idle"

ToolIdle ==
    /\ t_args = [clave |-> <<>>, texto |-> <<>>]
    /\ t_clave_num = <<>> /\ t_enc = <<>> /\ t_dec = <<>> /\ t_sol = <<>>
    /\ t_order_word = <<>> /\ t_order_auto = <<>>
    /\ t_done = {} /\ t_exc = None

ScoreIdle ==
    /\ tri_args = [path |-> "idle"]
    /\ TRI = [az |-> FALSE, over |-> <<>>] /\ TRI_DEF = 0
    /\ s_in = <<>> /\ s_out = [u |-> 0, n |-> 0, d |-> 1]
    /\ s_pc = "idle"

ExtIdle == AutoIdle /\ SampleIdle /\ ToolIdle /\ ScoreIdle

(***************************************************************************)
(* Geometry specification: both longitudes_columnas on bounded inputs      *)
(***************************************************************************)
GeomInit ==
    /\ g_N \in 0..GeomMaxN
    /\ g_k \in 1..GeomMaxK
    /\ \E p \in Orders1(g_k) : g_order0 = [i \in 1..g_k |-> p[i] - 1]
    /\ g_rule \in {"natural", "read"}
    /\ g_longs = <<>>
    /\ g_longs_auto = <<>>
    /\ g_done = {}

\* call transposition_word.longitudes_columnas
GeomWord ==
    /\ g_rule # None
    /\ "word" \notin g_done
    /\ g_longs' = longitudes_columnas(g_N, g_k, g_order0, g_rule)
    /\ g_done' = g_done \cup {"word"}
    /\ UNCHANGED <<g_N, g_k, g_order0, g_rule, g_longs_auto>>
    /\ UNCHANGED <<codecVars, cribVars, beamVars, extVars>>

\* call auto_transpo.longitudes_columnas
GeomAuto ==
    /\ g_rule # None
    /\ "auto" \notin g_done
    /\ g_longs_auto' = longitudes_columnas_auto(g_N, g_k)
    /\ g_done' = g_done \cup {"auto"}
    /\ UNCHANGED <<g_N, g_k, g_order0, g_rule, g_longs>>
    /\ UNCHANGED <<codecVars, cribVars, beamVars, extVars>>

GeomNext == GeomWord \/ GeomAuto

InitGeom == GeomInit /\ CodecIdle /\ CribIdle /\ BeamIdle /\ ExtIdle

SpecGeom == InitGeom /\ [][GeomNext]_vars

(***************************************************************************)
(* Codec specification: encode a plaintext, then decode the result with    *)
(* the same order under a structural variant                               *)
(***************************************************************************)
\* the 21-symbol scenario text
Quick == <<"T","H","E","Q","U","I","C","K","B","R","O","W","N","F","O","X",
           "J","U","M","P","S">>

\* cifrar_por_orden_var(Quick, [3,1,2], "down") as the source computes it
QuickCipher == <<"E","I","B","W","O","U","S","T","Q","C","R","N","X","M",
                 "H","U","K","O","F","J","P">>

CodecTexts ==
    Texts({"A", "B"}, 0, CodecMaxLen)
      \cup {SubSeq(UpperSeq, 1, n) : n \in 0..(CodecMaxLen + 2)}
      \cup {<<"a", "-", "B", "c", " ">>}

CodecInit ==
    /\ \/ /\ c_P \in CodecTexts
          /\ \E n \in 1..CodecMaxK : c_order \in Orders1(n)
       \/ /\ c_P = Quick
          /\ c_order = <<3, 1, 2>>
    /\ c_lr \in {"natural", "read"}
    /\ c_cd \in {"down", "up"}
    /\ c_enc = <<>>
    /\ c_dec = <<>>
    /\ c_pc = "input"

\* encode the plaintext under (order, col_direction)
CodecCifrar ==
    /\ c_pc = "input"
    /\ ~CifrarRaises(c_P, c_order)
    /\ c_enc' = cifrar_por_orden_var(c_P, c_order, c_cd)
    /\ c_pc' = "encoded"
    /\ UNCHANGED <<c_P, c_order, c_lr, c_cd, c_dec>>
    /\ UNCHANGED <<geomVars, cribVars, beamVars, extVars>>

\* decode the ciphertext under (order, long_rule, col_direction)
CodecDescifrar ==
    /\ c_pc = "encoded"
    /\ ~DescifrarRaises(c_enc, c_order, c_lr)
    /\ c_dec' = descifrar_por_orden(c_enc, c_order, c_lr, c_cd)
    /\ c_pc' = "decoded"
    /\ UNCHANGED <<c_P, c_order, c_lr, c_cd, c_enc>>
    /\ UNCHANGED <<geomVars, cribVars, beamVars, extVars>>

CodecNext == CodecCifrar \/ CodecDescifrar

InitCodec == CodecInit /\ GeomIdle /\ CribIdle /\ BeamIdle /\ ExtIdle

SpecCodec == InitCodec /\ [][CodecNext]_vars

(***************************************************************************)
(* Crib search: transposition_word.main                                    *)
(***************************************************************************)
\* raw ciphertexts: every text over {A, B} up to the bound, and two texts
\* that normalization changes
CribTextos ==
    Texts({"A", "B"}, 2, CribMaxLen)
      \cup {<<>>, <<"b", "-", "A", "a">>, <<"-", " ">>}

\* raw cribs
CribCribs == {<<"A", "B">>, <<"B", "B">>, <<"b", "-", "a">>, <<"-">>}

\* explicit --order values: permutations, a repeated index, index 0 (which
\* Python wraps to the last column) and an index beyond the last column
ExplicitOrders ==
    {<<1, 2>>, <<2, 1>>, <<2, 3, 1>>, <<1, 1>>, <<0, 1>>, <<1, 3>>}

\* --keyword values; the last normalizes to the empty word
Keywords == {<<"B", "A">>, <<"A", "B", "A">>, <<"b", "-", "a">>, <<"-">>}

\* the command lines of the model: the k sweep, --order and --keyword
CribArgs ==
    [mode : {"sweep"}, texto : CribTextos, crib : CribCribs,
     kmin : 0..CribMaxK, kmax : {2, CribMaxK}, stopfirst : BOOLEAN,
     maxperms : {SmallMaxPerms, DefaultMaxPerms},
     long_rule : {"natural", "read", "both"},
     col_dir : {"down", "up", "both"},
     order : {<<>>}, keyword : {<<>>}]
    \cup
    [mode : {"order"}, texto : CribTextos, crib : CribCribs,
     kmin : {2}, kmax : {CribMaxK}, stopfirst : BOOLEAN,
     maxperms : {DefaultMaxPerms},
     long_rule : {"natural", "read", "both"},
     col_dir : {"down", "up", "both"},
     order : ExplicitOrders, keyword : {<<>>}]
    \cup
    [mode : {"keyword"}, texto : CribTextos, crib : CribCribs,
     kmin : {2}, kmax : {CribMaxK}, stopfirst : BOOLEAN,
     maxperms : {DefaultMaxPerms},
     long_rule : {"natural", "read", "both"},
     col_dir : {"down", "up", "both"},
     order : {<<>>}, keyword : Keywords]

\* main 309-310
long_rules == IF args.long_rule = "both" THEN <<"natural", "read">>
              ELSE <<args.long_rule>>

col_dirs == IF args.col_dir = "both" THEN <<"down", "up">>
            ELSE <<args.col_dir>>

CribInit ==
    /\ args \in CribArgs
    /\ C = <<>> /\ W = <<>> /\ soluciones = <<>>
    /\ k = 0 /\ perms = <<>> /\ pi = 0 /\ sols_k = <<>>
    /\ evaluated = <<>>
    /\ pc = "start" /\ message = None /\ exit_status = -1 /\ recifrado = <<>>

\* a mutant of the input test: only the ciphertext is tested
EntradaVacia_SoloCripto(cripto, crib) == cripto = <<>>

\* main 306: "if not C or not W"
EntradaVacia(cripto, crib) == cripto = <<>> \/ crib = <<>>

\* main 289-307: normalize the ciphertext and the crib; an empty one ends
\* the run with sys.exit("Error: ...")
MainLeerEntrada ==
    /\ pc = "start"
    /\ C' = normalizar_AZ(args.texto)
    /\ W' = normalizar_AZ(args.crib)
    /\ IF EntradaVacia(C', W')
       THEN /\ pc' = "exit"
            /\ message' = "Error: criptograma o crib vacio"
            /\ exit_status' = ExitError
       ELSE /\ pc' = "dispatch"
            /\ UNCHANGED <<message, exit_status>>
    /\ UNCHANGED <<args, soluciones, k, perms, pi, sols_k, evaluated, recifrado>>
    /\ UNCHANGED <<geomVars, codecVars, beamVars, extVars>>

\* the effect of one probar_perm call made directly by main (315-323)
MainProbar(order1) ==
    LET res == probar_perm(C, order1, W, long_rules, col_dirs, args.stopfirst)
    IN  /\ evaluated' = evaluated \o res.evaluated
        /\ IF res.raised
           THEN /\ pc' = "exit"
                /\ message' = "Traceback"
                /\ exit_status' = ExitError
                /\ UNCHANGED soluciones
           ELSE /\ pc' = "report"
                /\ soluciones' = res.soluciones
                /\ UNCHANGED <<message, exit_status>>
        /\ UNCHANGED <<args, C, W, k, perms, pi, sols_k, recifrado>>
        /\ UNCHANGED <<geomVars, codecVars, beamVars, extVars>>

\* main 315-317: an explicit order
MainOrdenExplicito ==
    /\ pc = "dispatch"
    /\ args.order # <<>>
    /\ MainProbar(args.order)

\* main 320-323: a keyword
MainKeyword ==
    /\ pc = "dispatch"
    /\ args.order = <<>>
    /\ args.keyword # <<>>
    /\ LET order0 == keyword_to_order_read(args.keyword)
       IN  MainProbar([i \in 1..Len(order0) |-> order0[i] + 1])

\* main 326-327: enter the loop over k
MainBarrido ==
    /\ pc = "dispatch"
    /\ args.order = <<>>
    /\ args.keyword = <<>>
    /\ k' = args.kmin
    /\ pc' = "sweep"
    /\ UNCHANGED <<args, C, W, soluciones, perms, pi, sols_k, evaluated,
                   message, exit_status, recifrado>>
    /\ UNCHANGED <<geomVars, codecVars, beamVars, extVars>>

\* main 327-328 and explorar_permutaciones 200-211: the next k of the range
\* calls explorar_permutaciones, which builds its candidate sequence
ExplorarEntra ==
    /\ pc = "sweep"
    /\ k <= args.kmax
    /\ perms' = Candidatos(k, args.maxperms)
    /\ pi' = 1
    /\ sols_k' = <<>>
    /\ pc' = "explorar"
    /\ UNCHANGED <<args, C, W, soluciones, k, evaluated, message, exit_status,
                   recifrado>>
    /\ UNCHANGED <<geomVars, codecVars, beamVars, extVars>>

\* a mutant of the break in explorar_permutaciones: the loop goes on
ExplorarBreaks_Never(sols, stopfirst) == FALSE

\* a mutant of the break in explorar_permutaciones: the flag is not tested
ExplorarBreaks_SinBandera(sols, stopfirst) == sols # <<>>

\* explorar_permutaciones 215-218: "if sols: ... if stopfirst: break"
ExplorarBreaks(sols, stopfirst) == sols # <<>> /\ stopfirst

\* explorar_permutaciones 213-218: one candidate order through probar_perm
ExplorarProbar ==
    /\ pc = "explorar"
    /\ pi >= 1
    /\ pi <= Len(perms)
    /\ LET res == probar_perm(C, perms[pi], W, long_rules, col_dirs,
                              args.stopfirst)
       IN  /\ evaluated' = evaluated \o res.evaluated
           /\ IF res.raised
              THEN /\ pc' = "exit"
                   /\ message' = "Traceback"
                   /\ exit_status' = ExitError
                   /\ UNCHANGED <<sols_k, pi>>
              ELSE /\ sols_k' = sols_k \o res.soluciones
                   \* pi = 0 marks the loop as left by break
                   /\ pi' = IF ExplorarBreaks(res.soluciones, args.stopfirst)
                            THEN 0 ELSE pi + 1
                   /\ UNCHANGED <<pc, message, exit_status>>
    /\ UNCHANGED <<args, C, W, soluciones, k, perms, recifrado>>
    /\ UNCHANGED <<geomVars, codecVars, beamVars, extVars>>

\* a mutant of the break in main: the sweep goes on with the next k
MainBreaks_Never(sols, stopfirst) == FALSE

\* main 330-333: "if sols: ... if args.stopfirst: break"
MainBreaks(sols, stopfirst) == sols # <<>> /\ stopfirst

\* explorar_permutaciones 219 and main 328-333: the call returns, main
\* extends soluciones and goes to the next k or leaves the loop
ExplorarVuelve ==
    /\ pc = "explorar"
    /\ pi = 0 \/ pi > Len(perms)
    /\ soluciones' = soluciones \o sols_k
    /\ IF MainBreaks(sols_k, args.stopfirst)
       THEN pc' = "report" /\ UNCHANGED k
       ELSE pc' = "sweep" /\ k' = k + 1
    /\ perms' = <<>>
    /\ pi' = 0
    /\ sols_k' = <<>>
    /\ UNCHANGED <<args, C, W, evaluated, message, exit_status, recifrado>>
    /\ UNCHANGED <<geomVars, codecVars, beamVars, extVars>>

\* main 327: the range is exhausted
BarridoTermina ==
    /\ pc = "sweep"
    /\ k > args.kmax
    /\ pc' = "report"
    /\ UNCHANGED <<args, C, W, soluciones, k, perms, pi, sols_k, evaluated,
                   message, exit_status, recifrado>>
    /\ UNCHANGED <<geomVars, codecVars, beamVars, extVars>>

\* a mutant of the exit status: no solution leaves like an input error
EstadoSalida_ComoError(sols) == IF sols = <<>> THEN ExitError ELSE ExitOk

\* main 335-337 and the fall off the end of main
EstadoSalida(sols) == IF sols = <<>> THEN ExitSinExito ELSE ExitOk

\* main 335-350: report; with --out, guardar_salida 224-242 re-encrypts each
\* solution and writes whether it reproduces the ciphertext
MainInforma ==
    /\ pc = "report"
    /\ pc' = "exit"
    /\ exit_status' = EstadoSalida(soluciones)
    /\ IF soluciones = <<>>
       THEN /\ message' = "SIN EXITO"
            /\ recifrado' = <<>>
       ELSE /\ message' = "SOLUCIONES ENCONTRADAS"
            /\ \E out \in BOOLEAN :
                 recifrado' =
                    IF out
                    THEN [i \in 1..Len(soluciones) |->
                            cifrar_por_orden_var(soluciones[i].plain,
                                                 soluciones[i].order,
                                                 soluciones[i].col_dir)
                               = normalizar_AZ(C)]
                    ELSE <<>>
    /\ UNCHANGED <<args, C, W, soluciones, k, perms, pi, sols_k, evaluated>>
    /\ UNCHANGED <<geomVars, codecVars, beamVars, extVars>>

Next ==
    \/ MainLeerEntrada
    \/ MainOrdenExplicito
    \/ MainKeyword
    \/ MainBarrido
    \/ ExplorarEntra
    \/ ExplorarProbar
    \/ ExplorarVuelve
    \/ BarridoTermina
    \/ MainInforma

Init == CribInit /\ GeomIdle /\ CodecIdle /\ BeamIdle /\ ExtIdle

Spec == Init /\ [][Next]_vars

(***************************************************************************)
(* Beam specification: auto_transpo.search_n and beam_search               *)
(***************************************************************************)
\* normalized ciphertexts over two letters that form the common trigram ARA
BeamTextos == Texts({"A", "R"}, 0, BeamMaxLen)

\* the calls of the model: search_n as main makes it, and beam_search alone
BeamArgs ==
    [entry : {"search_n"}, cipher : BeamTextos,
     nmin : 0..BeamMaxN, nmax : 1..BeamMaxN, n : {0},
     beam : {1, Factorial(BeamMaxN)}, kbest : 1..2]
    \cup
    [entry : {"beam_search"}, cipher : BeamTextos,
     nmin : {0}, nmax : {0}, n : 0..BeamMaxN,
     beam : {1, Factorial(BeamMaxN)}, kbest : 1..2]

BeamInit ==
    /\ b_args \in BeamArgs
    /\ n_cols = 0 /\ candidatos = <<>>
    /\ b_n = 0 /\ estados = <<>> /\ paso = 0
    /\ b_pc = "call" /\ b_result = <<>> /\ b_exc = None

\* beam_search 148-151 for n columns: longitudes_columnas divides by n
BeamEntra(n) ==
    /\ b_n' = n
    /\ paso' = 0
    /\ IF n = 0
       THEN /\ b_pc' = "done"
            /\ b_exc' = "ZeroDivisionError"
            /\ estados' = <<>>
       ELSE /\ b_pc' = "beam"
            /\ estados' = <<[orden |-> <<>>, cols |-> [c \in 1..n |-> <<>>],
                             cursor |-> 0, punt |-> [u |-> 0, n |-> 0, d |-> 1]]>>
            /\ UNCHANGED b_exc

\* search_n 188: enter the loop over n
SearchEntra ==
    /\ b_pc = "call"
    /\ b_args.entry = "search_n"
    /\ n_cols' = b_args.nmin
    /\ b_pc' = "search"
    /\ UNCHANGED <<b_args, candidatos, b_n, estados, paso, b_result, b_exc>>
    /\ UNCHANGED <<geomVars, codecVars, cribVars, extVars>>

\* a mutant of the geometry test: only n < 2 is rejected
GeometriaRechazada_SoloN(N, n) == n < 2

\* search_n 190-194: this n is rejected
GeometriaRechazada(N, n) ==
    IF n < 2 THEN TRUE
    ELSE MinOf(longitudes_columnas_auto(N, n)) < MinColumna

\* search_n 189-194: "continue" on a rejected n
SearchSalta ==
    /\ b_pc = "search"
    /\ n_cols <= b_args.nmax
    /\ GeometriaRechazada(Len(b_args.cipher), n_cols)
    /\ n_cols' = n_cols + 1
    /\ UNCHANGED <<b_args, candidatos, b_n, estados, paso, b_pc, b_result, b_exc>>
    /\ UNCHANGED <<geomVars, codecVars, cribVars, extVars>>

\* search_n 195: call beam_search for an accepted n
SearchLlamaBeam ==
    /\ b_pc = "search"
    /\ n_cols <= b_args.nmax
    /\ ~GeometriaRechazada(Len(b_args.cipher), n_cols)
    /\ BeamEntra(n_cols)
    /\ UNCHANGED <<b_args, n_cols, candidatos, b_result>>
    /\ UNCHANGED <<geomVars, codecVars, cribVars, extVars>>

\* beam_search called on its own
BeamLlamada ==
    /\ b_pc = "call"
    /\ b_args.entry = "beam_search"
    /\ BeamEntra(b_args.n)
    /\ UNCHANGED <<b_args, n_cols, candidatos, b_result>>
    /\ UNCHANGED <<geomVars, codecVars, cribVars, extVars>>

\* beam_search 154-178: one paso: extend every state by every remaining
\* column, score the partial reconstruction, sort and keep the best beam;
\* an extension whose partial read raises ends the call (and search_n)
BeamPaso ==
    /\ b_pc = "beam"
    /\ paso < b_n
    /\ LET longs == longitudes_columnas_auto(Len(b_args.cipher), b_n)
           exts == Extensiones(b_args.cipher, b_n, longs, estados)
       IN  IF \E t \in 1..Len(exts) : ParcialRaises(exts[t])
           THEN /\ b_pc' = "done"
                /\ b_exc' = "IndexError"
                /\ UNCHANGED <<estados, paso>>
           ELSE /\ estados' = Poda([t \in 1..Len(exts) |-> Puntuada(exts[t])],
                                    b_args.beam)
                /\ paso' = paso + 1
                /\ UNCHANGED <<b_pc, b_exc>>
    /\ UNCHANGED <<b_args, n_cols, candidatos, b_n, b_result>>
    /\ UNCHANGED <<geomVars, codecVars, cribVars, extVars>>

\* beam_search 180-185 (with the n that search_n 196 adds): the decode and
\* length-normalized score of every surviving state, best topk first
Finales(n, estados_, topk) ==
    Take(SortDesc([t \in 1..Len(estados_) |->
                      LET plain == leer_por_filas(estados_[t].cols)
                      IN  [sc |-> ScoreDiv(score_text(plain), Len(plain)),
                           n |-> n,
                           orden |-> estados_[t].orden,
                           plain |-> plain]],
                  LAMBDA x : x.sc),
         topk)

\* beam_search 180-185: decode and score the complete orders, sort, keep
\* topk; in search_n (195-196) the results join candidatos and the loop
\* goes on
BeamFinal ==
    /\ b_pc = "beam"
    /\ paso = b_n
    /\ IF \E t \in 1..Len(estados) : leer_por_filas(estados[t].cols) = <<>>
       THEN /\ b_pc' = "done"
            /\ b_exc' = "ZeroDivisionError"
            /\ UNCHANGED <<candidatos, n_cols, b_result>>
       ELSE LET ret == Finales(b_n, estados, b_args.kbest)
            IN  IF b_args.entry = "search_n"
                THEN /\ candidatos' = candidatos \o ret
                     /\ n_cols' = n_cols + 1
                     /\ b_pc' = "search"
                     /\ UNCHANGED <<b_result, b_exc>>
                ELSE /\ b_result' = ret
                     /\ b_pc' = "done"
                     /\ UNCHANGED <<candidatos, n_cols, b_exc>>
    /\ UNCHANGED <<b_args, b_n, estados, paso>>
    /\ UNCHANGED <<geomVars, codecVars, cribVars, extVars>>

\* search_n 197-198: sort the merged candidates and return the best kbest
SearchTermina ==
    /\ b_pc = "search"
    /\ n_cols > b_args.nmax
    /\ b_result' = Take(SortDesc(candidatos, LAMBDA x : x.sc), b_args.kbest)
    /\ b_pc' = "done"
    /\ UNCHANGED <<b_args, n_cols, candidatos, b_n, estados, paso, b_exc>>
    /\ UNCHANGED <<geomVars, codecVars, cribVars, extVars>>

(***************************************************************************)
(* auto_transpo.main: read and normalize the input, then either decode     *)
(* directly with a keyword's order or run search_n and report              *)
(***************************************************************************)
\* raw inputs: empty, without any letter, and with letters ("-" stands for
\* any symbol that normalization drops)
AutoTextos ==
    {<<>>, <<"-", " ">>, <<"a", "r", "a">>, <<"A", "R", "-", "A", "R">>,
     <<"a", "R", "a", "-", "R", "A", "R">>}

AutoKeywords == {<<"B", "A">>, <<"a", "-", "B", "a">>}

\* the command lines of the model
AutoArgs ==
    [mode : {"search"}, texto : AutoTextos, keyword : {<<>>},
     nmin : 0..BeamMaxN, nmax : 1..BeamMaxN, beam : {1}, kbest : 1..2]
    \cup
    [mode : {"keyword"}, texto : AutoTextos, keyword : AutoKeywords,
     nmin : {4}, nmax : {10}, beam : {200}, kbest : {5}]

AutoInit ==
    /\ a_argv \in AutoArgs
    /\ a_pc = "start" /\ a_salida = [texto |-> None, datos |-> <<>>]
    /\ a_exit = -1

\* main 271-275 and the dispatch of 280-302: an empty ciphertext ends the
\* run with sys.exit("Error: ..."); otherwise the keyword decode or the
\* call of search_n follows
AutoLee ==
    /\ a_pc = "start"
    /\ LET cipher == normalizar(a_argv.texto)
       IN  IF cipher = <<>>
           THEN /\ a_salida' = [texto |-> "Error: criptograma vacio tras normalizar.",
                              datos |-> <<>>]
                /\ a_exit' = ExitError
                /\ a_pc' = "exit"
                /\ UNCHANGED <<b_args, b_pc>>
           ELSE IF a_argv.mode = "keyword"
           THEN /\ a_pc' = "keyword"
                /\ b_args' = [entry |-> "asignar_columnas", cipher |-> cipher]
                /\ UNCHANGED <<a_salida, a_exit, b_pc>>
           ELSE /\ a_pc' = "search"
                /\ b_args' = [entry |-> "search_n", cipher |-> cipher,
                              nmin |-> a_argv.nmin, nmax |-> a_argv.nmax,
                              n |-> 0, beam |-> a_argv.beam,
                              kbest |-> a_argv.kbest]
                /\ b_pc' = "call"
                /\ UNCHANGED <<a_salida, a_exit>>
    /\ UNCHANGED <<a_argv, n_cols, candidatos, b_n, estados, paso, b_result,
                   b_exc>>
    /\ UNCHANGED <<geomVars, codecVars, cribVars, sampleVars, toolVars,
                   scoreVars>>

\* main 291-299: decode with the keyword's reading order and write CT,
\* order and PT
AutoKeyword ==
    /\ a_pc = "keyword"
    /\ LET orden == keyword_to_order_read_auto(a_argv.keyword)
           cols == asignar_columnas(b_args.cipher, Len(orden), orden)
       IN  a_salida' = [texto |-> "CT, Orden (1-based), PT",
                        datos |-> <<b_args.cipher,
                                    [i \in 1..Len(orden) |-> orden[i] + 1],
                                    leer_por_filas(cols)>>]
    /\ a_exit' = ExitOk
    /\ a_pc' = "exit"
    /\ UNCHANGED <<a_argv, beamVars>>
    /\ UNCHANGED <<geomVars, codecVars, cribVars, sampleVars, toolVars,
                   scoreVars>>

\* main 302-315: search_n has returned or raised; an uncaught exception ends
\* the run with a traceback, an empty result writes the "no hypotheses"
\* line, anything else the ranked hypotheses
AutoInforma ==
    /\ a_pc = "search"
    /\ b_pc = "done"
    /\ IF b_exc # None
       THEN /\ a_salida' = [texto |-> "Traceback", datos |-> <<>>]
            /\ a_exit' = ExitError
       ELSE IF b_result = <<>>
       THEN /\ a_salida' = [texto |-> "No se encontraron hipotesis plausibles.",
                              datos |-> <<>>]
            /\ a_exit' = ExitOk
       ELSE /\ a_salida' = [texto |-> "=== Hipotesis plausibles (mejor primero) ===",
                              datos |-> b_result]
            /\ a_exit' = ExitOk
    /\ a_pc' = "exit"
    /\ UNCHANGED <<a_argv, beamVars>>
    /\ UNCHANGED <<geomVars, codecVars, cribVars, sampleVars, toolVars,
                   scoreVars>>

BeamNext ==
    \/ SearchEntra
    \/ SearchSalta
    \/ SearchLlamaBeam
    \/ BeamLlamada
    \/ BeamPaso
    \/ BeamFinal
    \/ SearchTermina
    \/ AutoLee
    \/ AutoKeyword
    \/ AutoInforma

InitBeam ==
    /\ \/ BeamInit /\ AutoIdle
       \/ BeamIdle /\ AutoInit
    /\ GeomIdle /\ CodecIdle /\ CribIdle
    /\ SampleIdle /\ ToolIdle /\ ScoreIdle

SpecBeam == InitBeam /\ [][BeamNext]_vars

(***************************************************************************)
(* Both command-line tools: a run of transposition_word.py with the        *)
(* default variant set, or a run of auto_transpo.py (or a direct call of   *)
(* its search functions)                                                   *)
(***************************************************************************)
EntradaInit ==
    \/ /\ CribInit
       /\ args.long_rule = "both" /\ args.col_dir = "both"
       /\ args.maxperms = DefaultMaxPerms
       /\ args.mode = "sweep" => args.kmax = 2
       /\ BeamIdle /\ AutoIdle
    \/ CribIdle /\ BeamIdle /\ AutoInit
    \/ CribIdle /\ BeamInit /\ AutoIdle

InitEntrada ==
    /\ EntradaInit
    /\ GeomIdle /\ CodecIdle /\ SampleIdle /\ ToolIdle /\ ScoreIdle

EntradaNext == Next \/ BeamNext

SpecEntrada == InitEntrada /\ [][EntradaNext]_vars

(***************************************************************************)
(* Sampling specification: the candidate generator of                      *)
(* explorar_permutaciones over a k sweep.  The module-level generator of   *)
(* random is one state shared by all calls; the state is kept as the       *)
(* number of draws made since random.seed(42), and the state the process   *)
(* starts in is arbitrary.                                                 *)
(***************************************************************************)
\* a mutant of the seeding: the generator keeps the state it is in
Semilla_SinSembrar(estado) == estado

\* explorar_permutaciones 210: random.seed(42)
Semilla(estado) == 0

\* explorar_permutaciones 211: random.sample(elems, k) for elems = 1..ncols
\* in generator state estado
Muestra(ncols, estado) ==
    SampleTable[ncols][(estado % Len(SampleTable[ncols])) + 1]

SampleArgs ==
    {a \in [kmin : 1..SampleMaxK, kmax : 1..SampleMaxK,
            maxperms : (1..SampleMaxPerms) \cup {DefaultMaxPerms}] :
        a.kmin <= a.kmax}

SampleInit ==
    /\ r_args \in SampleArgs
    /\ r_k = r_args.kmin
    /\ r_rng \in 0..2
    /\ r_perms = <<>> /\ r_hist = <<>>
    /\ r_pc = "sweep"

\* explorar_permutaciones 200-211: count k!, then either the exhaustive
\* enumeration or the seeded generator
SampleEntra ==
    /\ r_pc = "sweep"
    /\ r_k <= r_args.kmax
    /\ IF Factorial(r_k) <= r_args.maxperms
       THEN /\ r_perms' = ItertoolsPermutations([i \in 1..r_k |-> i])
            /\ r_pc' = "exhaustivo"
            /\ UNCHANGED r_rng
       ELSE /\ r_rng' = Semilla(r_rng)
            /\ r_perms' = <<>>
            /\ r_pc' = "muestra"
    /\ UNCHANGED <<r_args, r_k, r_hist>>
    /\ UNCHANGED <<geomVars, codecVars, cribVars, beamVars, autoVars,
                   toolVars, scoreVars>>

\* explorar_permutaciones 211, 213: the loop takes the next sampled order
SampleSiguiente ==
    /\ r_pc = "muestra"
    /\ Len(r_perms) < r_args.maxperms
    /\ r_perms' = Append(r_perms, Muestra(r_k, r_rng))
    /\ r_rng' = r_rng + 1
    /\ UNCHANGED <<r_args, r_k, r_hist, r_pc>>
    /\ UNCHANGED <<geomVars, codecVars, cribVars, beamVars, autoVars,
                   toolVars, scoreVars>>

\* explorar_permutaciones 213-219 and main 327: the loop ends, when the
\* candidates are used up or by the break after a first Solution, and the
\* sweep goes to the next k
SampleVuelve ==
    /\ \/ r_pc = "exhaustivo"
       \/ r_pc = "muestra" /\ Len(r_perms) >= 1
    /\ r_hist' = Append(r_hist, [ncols |-> r_k, perms |-> r_perms])
    /\ r_k' = r_k + 1
    /\ r_perms' = <<>>
    /\ r_pc' = "sweep"
    /\ UNCHANGED <<r_args, r_rng>>
    /\ UNCHANGED <<geomVars, codecVars, cribVars, beamVars, autoVars,
                   toolVars, scoreVars>>

SampleNext == SampleEntra \/ SampleSiguiente \/ SampleVuelve

InitSample ==
    /\ SampleInit
    /\ GeomIdle /\ CodecIdle /\ CribIdle /\ BeamIdle
    /\ AutoIdle /\ ToolIdle /\ ScoreIdle

SpecSample == InitSample /\ [][SampleNext]_vars

(***************************************************************************)
(* Cipher tool (transposicion.py) and the keyword conversions              *)
(***************************************************************************)
\* transposicion.normalizar_AZ: upper-case, strip marks, keep "A".."Z"
normalizar_AZ_transposicion(texto) ==
    SelectSeq([i \in 1..Len(texto) |-> Upper(texto[i])],
              LAMBDA ch : \E i \in 1..26 : UpperSeq[i] = ch)

\* a mutant of the numeric key: values counted from 0
derivar_clave_numerica_DesdeCero(clave) ==
    LET w == normalizar_AZ_transposicion(clave)
        ordenados == SortedPares([i \in 1..Len(w) |-> <<w[i], i - 1>>])
    IN  [i \in 1..Len(w) |->
            (CHOOSE v \in 1..Len(w) : ordenados[v] = <<w[i], i - 1>>) - 1]

\* a mutant of the numeric key: repeated letters are numbered from right
\* to left
derivar_clave_numerica_DerechaIzquierda(clave) ==
    LET w == normalizar_AZ_transposicion(clave)
        ordenados == SortedPares([i \in 1..Len(w) |-> <<w[i], Len(w) - i>>])
    IN  [i \in 1..Len(w) |->
            CHOOSE v \in 1..Len(w) : ordenados[v] = <<w[i], Len(w) - i>>]

\* transposicion.derivar_clave_numerica 55-67: the 1-based position of each
\* (letter, index) pair in the sorted list of pairs
derivar_clave_numerica(clave) ==
    LET w == normalizar_AZ_transposicion(clave)
        ordenados == SortedPares([i \in 1..Len(w) |-> <<w[i], i - 1>>])
    IN  [i \in 1..Len(w) |->
            CHOOSE v \in 1..Len(w) : ordenados[v] = <<w[i], i - 1>>]

\* the worked example printed by ayuda_extendida (146) for the key ROMA
AyudaEjemploClave == <<"R", "O", "M", "A">>

AyudaEjemplo == <<3, 2, 4, 1>>

\* sorted(range(columnas), key=lambda k: clave_num[k]): stable, 0-based
OrdenAscendente(clave_num) ==
    LET m == Len(clave_num)
        antes(j, c) == \/ clave_num[j + 1] < clave_num[c + 1]
                       \/ (clave_num[j + 1] = clave_num[c + 1] /\ j < c)
    IN  [r \in 1..m |->
            CHOOSE c \in 0..(m - 1) :
                Cardinality({j \in 0..(m - 1) : antes(j, c)}) = r - 1]

\* cifrar_columnar 82 and descifrar_columnar 104 divide by the column count
ColumnarRaises(clave_num) == Len(clave_num) = 0

\* a mutant of the encryption: no padding, the short columns are skipped
cifrar_columnar_SinRelleno(texto, clave_num) ==
    LET columnas == Len(clave_num)
        filas == (Len(texto) + columnas - 1) \div columnas
        orden == OrdenAscendente(clave_num)
    IN  Flatten([r \in 1..columnas |->
            SelectSeq([f \in 1..filas |->
                          IF (f - 1) * columnas + orden[r] + 1 <= Len(texto)
                          THEN texto[(f - 1) * columnas + orden[r] + 1]
                          ELSE "-"],
                      LAMBDA ch : ch # "-")])

\* transposicion.cifrar_columnar 80-95: pad the last row with X, write by
\* rows, read the columns in ascending key order
cifrar_columnar(texto, clave_num) ==
    LET columnas == Len(clave_num)
        filas == (Len(texto) + columnas - 1) \div columnas
        relleno == texto \o [i \in 1..(filas * columnas - Len(texto)) |-> "X"]
        orden == OrdenAscendente(clave_num)
    IN  [t \in 1..(filas * columnas) |->
            relleno[((t - 1) % filas) * columnas
                    + orden[((t - 1) \div filas) + 1] + 1]]

\* transposicion.descifrar_columnar 101-123: cut the ciphertext in columns
\* of len // columnas symbols in ascending key order, read by rows
descifrar_columnar(texto_cifrado, clave_num) ==
    LET cifrado == normalizar_AZ_transposicion(texto_cifrado)
        columnas == Len(clave_num)
        filas == Len(cifrado) \div columnas
        orden == OrdenAscendente(clave_num)
        lugar(col) == CHOOSE r \in 1..columnas : orden[r] = col
    IN  [t \in 1..(filas * columnas) |->
            cifrado[(lugar((t - 1) % columnas) - 1) * filas
                    + ((t - 1) \div columnas) + 1]]

\* keys: every word over {A, B} up to the bound, the help's example, a key
\* that normalization changes and a key without any letter
ToolClaves ==
    Texts({"A", "B"}, 0, ToolMaxKey)
      \cup {AyudaEjemploClave, <<"r", "o", "-", "m", "a">>, <<"-">>}

\* texts: every text over {A, X} up to the bound and one that normalization
\* changes
ToolTextos ==
    Texts({"A", "X"}, 0, ToolMaxLen) \cup {<<"a", "-", "x">>}

ToolInit ==
    /\ t_args \in [clave : ToolClaves, texto : ToolTextos]
    /\ t_clave_num = <<>> /\ t_enc = <<>> /\ t_dec = <<>> /\ t_sol = <<>>
    /\ t_order_word = <<>> /\ t_order_auto = <<>>
    /\ t_done = {} /\ t_exc = None

\* main 189: the numeric key
ToolDerivar ==
    /\ t_exc = None
    /\ "clave" \notin t_done /\ "tool" \in t_done
    /\ t_clave_num' = derivar_clave_numerica(t_args.clave)
    /\ t_done' = t_done \cup {"clave"}
    /\ UNCHANGED <<t_args, t_enc, t_dec, t_sol, t_order_word, t_order_auto,
                   t_exc>>
    /\ UNCHANGED <<geomVars, codecVars, cribVars, beamVars, autoVars,
                   sampleVars, scoreVars>>

\* main 191-194 with --cifrar
ToolCifrar ==
    /\ t_exc = None
    /\ "clave" \in t_done /\ "cifrar" \notin t_done
    /\ IF ColumnarRaises(t_clave_num)
       THEN /\ t_exc' = "ZeroDivisionError"
            /\ UNCHANGED t_enc
       ELSE /\ t_enc' = cifrar_columnar(
                            normalizar_AZ_transposicion(t_args.texto),
                            t_clave_num)
            /\ UNCHANGED t_exc
    /\ t_done' = t_done \cup {"cifrar"}
    /\ UNCHANGED <<t_args, t_clave_num, t_dec, t_sol, t_order_word,
                   t_order_auto>>
    /\ UNCHANGED <<geomVars, codecVars, cribVars, beamVars, autoVars,
                   sampleVars, scoreVars>>

\* main 191-196 with --descifrar, on the output of the encryption
ToolDescifrar ==
    /\ t_exc = None
    /\ "cifrar" \in t_done /\ "descifrar" \notin t_done
    /\ t_dec' = descifrar_columnar(t_enc, t_clave_num)
    /\ t_done' = t_done \cup {"descifrar"}
    /\ UNCHANGED <<t_args, t_clave_num, t_enc, t_sol, t_order_word,
                   t_order_auto, t_exc>>
    /\ UNCHANGED <<geomVars, codecVars, cribVars, beamVars, autoVars,
                   sampleVars, scoreVars>>

\* auto_transpo.main 291-294 with --keyword, on the output of the
\* encryption and with the same key
ToolSolverKeyword ==
    /\ t_exc = None
    /\ "descifrar" \in t_done /\ "solver" \notin t_done
    /\ LET orden == keyword_to_order_read_auto(t_args.clave)
       IN  t_sol' = leer_por_filas(asignar_columnas(normalizar(t_enc),
                                                    Len(orden), orden))
    /\ t_done' = t_done \cup {"solver"}
    /\ UNCHANGED <<t_args, t_clave_num, t_enc, t_dec, t_order_word,
                   t_order_auto, t_exc>>
    /\ UNCHANGED <<geomVars, codecVars, cribVars, beamVars, autoVars,
                   sampleVars, scoreVars>>

\* the key handed to transposition_word.keyword_to_order_read
ToolKeywordWord ==
    /\ t_done = {}
    /\ t_order_word' = keyword_to_order_read(t_args.clave)
    /\ t_done' = {"word"}
    /\ UNCHANGED <<t_args, t_clave_num, t_enc, t_dec, t_sol, t_order_auto,
                   t_exc>>
    /\ UNCHANGED <<geomVars, codecVars, cribVars, beamVars, autoVars,
                   sampleVars, scoreVars>>

\* the key handed to auto_transpo.keyword_to_order_read
ToolKeywordAuto ==
    /\ t_done = {"word"}
    /\ t_order_auto' = keyword_to_order_read_auto(t_args.clave)
    /\ t_done' = {"word", "auto", "tool"}
    /\ UNCHANGED <<t_args, t_clave_num, t_enc, t_dec, t_sol, t_order_word,
                   t_exc>>
    /\ UNCHANGED <<geomVars, codecVars, cribVars, beamVars, autoVars,
                   sampleVars, scoreVars>>

ToolNext ==
    \/ ToolKeywordWord
    \/ ToolKeywordAuto
    \/ ToolDerivar
    \/ ToolCifrar
    \/ ToolDescifrar
    \/ ToolSolverKeyword

InitTool ==
    /\ ToolInit
    /\ GeomIdle /\ CodecIdle /\ CribIdle /\ BeamIdle
    /\ AutoIdle /\ SampleIdle /\ ScoreIdle

SpecTool == InitTool /\ [][ToolNext]_vars

(***************************************************************************)
(* Scoring specification: the trigram table (cargar_trigramas, the module  *)
(* globals TRI and TRI_DEF) and score_text.  Log-probabilities are kept in *)
(* halves, as in the beam search.  A table is a record: over maps the      *)
(* trigrams with an entry of their own to their value, and az says that    *)
(* every other A-Z trigram is present with the base value -9.0.            *)
(***************************************************************************)
\* cargar_trigramas 94-103: the fallback table and its default
TablaFallback == [az |-> TRUE, over |-> [tri \in Comunes |-> -5]]

DefFallback == -21

\* one row of a trigram file: its first field, the number of tab-separated
\* fields, whether float() accepts the third field, and its value in halves
FilasPosibles ==
    {[tri |-> <<"A", "R", "A">>, campos |-> 3, num |-> TRUE, lp |-> -4],
     [tri |-> <<"R", "A", "R">>, campos |-> 3, num |-> TRUE, lp |-> -7],
     [tri |-> <<"A", "A", "A">>, campos |-> 3, num |-> FALSE, lp |-> 0],
     [tri |-> <<"R", "R", "R">>, campos |-> 2, num |-> TRUE, lp |-> 0],
     [tri |-> <<"A", "R">>, campos |-> 3, num |-> TRUE, lp |-> -2]}

\* cargar_trigramas 82-86: read the rows in order into tabla; a row with
\* fewer than 3 fields or a first field that is not 3 symbols long is
\* skipped, a third field that float() rejects raises and ends the loop
RECURSIVE LeeFilas(_, _, _)
LeeFilas(filas, i, tabla) ==
    IF i > Len(filas) THEN tabla
    ELSE IF filas[i].campos >= 3 /\ Len(filas[i].tri) = 3
    THEN IF filas[i].num
         THEN LeeFilas(filas, i + 1,
                       [tri \in DOMAIN tabla \cup {filas[i].tri} |->
                           IF tri = filas[i].tri THEN filas[i].lp
                           ELSE tabla[tri]])
         ELSE tabla
    ELSE LeeFilas(filas, i + 1, tabla)

\* min(tabla.values())
MinValor(tabla) ==
    CHOOSE v \in {tabla[tri] : tri \in DOMAIN tabla} :
        \A tri \in DOMAIN tabla : v <= tabla[tri]

\* auto_transpo.cargar_trigramas 71-103 for a path argument: no path, a
\* path that cannot be opened or decoded, or a file with the given rows;
\* the result is the pair (tabla, default_lp)
cargar_trigramas(ruta) ==
    LET tabla == IF ruta.path = "archivo" THEN LeeFilas(ruta.filas, 1, <<>>)
                 ELSE <<>>
    IN  IF DOMAIN tabla # {}
        THEN [tabla |-> [az |-> FALSE, over |-> tabla],
              def |-> MinValor(tabla) - 4]
        ELSE [tabla |-> TablaFallback, def |-> DefFallback]

\* TRI.get(tri, TRI_DEF)
TRI_get(tabla, def, tri) ==
    IF tri \in DOMAIN tabla.over THEN tabla.over[tri]
    ELSE IF tabla.az /\ Len(tri) = 3 /\ IsAZ(tri) THEN -18
    ELSE def

\* score_text 110-113 from window i on
RECURSIVE SumaVentanas(_, _, _, _)
SumaVentanas(tabla, def, txt, i) ==
    IF i > Len(txt) - 2 THEN 0
    ELSE TRI_get(tabla, def, SubSeq(txt, i, i + 2))
           + SumaVentanas(tabla, def, txt, i + 1)

\* a mutant of score_text: the sentinel only below 2 symbols
score_text_TRI_Umbral2(tabla, def, txt) ==
    IF Len(txt) < 2 THEN [u |-> -2, n |-> 0, d |-> 1]
    ELSE [u |-> 0, n |-> SumaVentanas(tabla, def, txt, 1), d |-> 1]

\* auto_transpo.score_text 107-114 with the globals TRI, TRI_DEF as they
\* are when it is called
score_text_TRI(tabla, def, txt) ==
    IF Len(txt) < 3 THEN [u |-> -2, n |-> 0, d |-> 1]
    ELSE [u |-> 0, n |-> SumaVentanas(tabla, def, txt, 1), d |-> 1]

\* the --trigrams arguments of the model
TriArgs ==
    {[path |-> "none", filas |-> <<>>], [path |-> "falta", filas |-> <<>>]}
      \cup {[path |-> "archivo", filas |-> f] :
               f \in UNION {[1..m -> FilasPosibles] : m \in 0..TriMaxFilas}}

\* texts to score: over two letters, and one that is not upper-case
ScoreTextos ==
    Texts({"A", "R"}, 0, ScoreMaxLen) \cup {<<"a", "r", "a">>}

\* the state after import: TRI, TRI_DEF = cargar_trigramas(None) (105)
ScoreInit ==
    /\ tri_args \in TriArgs
    /\ TRI = TablaFallback /\ TRI_DEF = DefFallback
    /\ s_in \in ScoreTextos
    /\ s_out = [u |-> 0, n |-> 0, d |-> 1]
    /\ s_pc = "start"

\* main 266-269: "if args.trigrams: TRI, TRI_DEF = cargar_trigramas(...)"
ScoreCarga ==
    /\ s_pc = "start"
    /\ IF tri_args.path # "none"
       THEN /\ TRI' = cargar_trigramas(tri_args).tabla
            /\ TRI_DEF' = cargar_trigramas(tri_args).def
       ELSE UNCHANGED <<TRI, TRI_DEF>>
    /\ s_pc' = "cargado"
    /\ UNCHANGED <<tri_args, s_in, s_out>>
    /\ UNCHANGED <<geomVars, codecVars, cribVars, beamVars, autoVars,
                   sampleVars, toolVars>>

\* a call of score_text
ScoreTexto ==
    /\ s_pc = "cargado"
    /\ s_out' = score_text_TRI(TRI, TRI_DEF, s_in)
    /\ s_pc' = "done"
    /\ UNCHANGED <<tri_args, TRI, TRI_DEF, s_in>>
    /\ UNCHANGED <<geomVars, codecVars, cribVars, beamVars, autoVars,
                   sampleVars, toolVars>>

ScoreNext == ScoreCarga \/ ScoreTexto

InitScore ==
    /\ ScoreInit
    /\ GeomIdle /\ CodecIdle /\ CribIdle /\ BeamIdle
    /\ AutoIdle /\ SampleIdle /\ ToolIdle

SpecScore == InitScore /\ [][ScoreNext]_vars

(***************************************************************************)
(* Pruning specification: the sort-and-cut of one beam_search step applied *)
(* to the extensions of the first step carrying arbitrary scores           *)
(***************************************************************************)
\* accumulated scores of the extensions: three floats, two of them equal
\* under different representations
PodaPuntos ==
    {[u |-> 0, n |-> -4, d |-> 1], [u |-> 0, n |-> -8, d |-> 2],
     [u |-> 0, n |-> -5, d |-> 1], [u |-> 0, n |-> -9, d |-> 2]}

PodaTextos == {<<"A", "R", "A">>, <<"A", "R", "A", "R", "A", "R">>}

\* beam_search 151-175 for paso 0: one extension per column, in generation
\* order, each with an accumulated score
PodaNuevos(cipher, n) ==
    LET longs == longitudes_columnas_auto(Len(cipher), n)
        e0 == [orden |-> <<>>, cols |-> [c \in 1..n |-> <<>>],
               cursor |-> 0, punt |-> [u |-> 0, n |-> 0, d |-> 1]]
    IN  {[t \in 1..n |-> [Extiende(cipher, longs, e0, t - 1) EXCEPT !.punt = f[t]]] :
            f \in [1..n -> PodaPuntos]}

PodaArgs ==
    UNION {[entry : {"poda"}, cipher : {txt}, n : {m}, beam : 1..PodaMaxN,
            nuevos : PodaNuevos(txt, m)] :
              txt \in PodaTextos, m \in 1..PodaMaxN}

PodaInit ==
    /\ b_args \in PodaArgs
    /\ n_cols = 0 /\ candidatos = <<>>
    /\ b_n = b_args.n /\ estados = <<>> /\ paso = 0
    /\ b_pc = "poda" /\ b_result = <<>> /\ b_exc = None

\* beam_search 177-178: the end of a paso
BeamPoda ==
    /\ b_pc = "poda"
    /\ estados' = Poda(b_args.nuevos, b_args.beam)
    /\ paso' = paso + 1
    /\ b_pc' = "podado"
    /\ UNCHANGED <<b_args, n_cols, candidatos, b_n, b_result, b_exc>>
    /\ UNCHANGED <<geomVars, codecVars, cribVars, extVars>>

PodaNext == BeamPoda

InitPoda ==
    /\ PodaInit
    /\ GeomIdle /\ CodecIdle /\ CribIdle /\ ExtIdle

SpecPoda == InitPoda /\ [][PodaNext]_vars

(***************************************************************************)
(* Merge specification: the merge of search_n (195-198) fed by one worker  *)
(* per accepted column count, the result lists arriving in any order       *)
(***************************************************************************)
\* ciphertexts of 9 symbols, accepted for 2 and for 3 columns
MergeTextos ==
    {<<"A", "A", "A", "A", "A", "A", "A", "A", "A">>,
     <<"A", "R", "A", "A", "R", "A", "A", "R", "A">>,
     <<"R", "A", "R", "A", "A", "R", "A", "R", "A">>}

\* the final beams a worker for kk columns may hold: one or two complete
\* orders, each with its columns assigned
MergeBeams(cipher, kk) ==
    LET ords == {[i \in 1..kk |-> q[i] - 1] : q \in Orders1(kk)}
        completa(o) == [orden |-> o, cols |-> asignar_columnas(cipher, kk, o),
                        cursor |-> Len(cipher),
                        punt |-> [u |-> 0, n |-> 0, d |-> 1]]
    IN  {<<completa(o)>> : o \in ords}
          \cup {<<completa(x[1]), completa(x[2])>> :
                   x \in {y \in ords \X ords : y[1] # y[2]}}

\* search_n over the column counts 2..3, each worker's result list being
\* what beam_search 180-185 returns for its final beam
MergeArgs ==
    UNION {{[entry |-> "merge", cipher |-> txt, nmin |-> 2, nmax |-> 3,
             kbest |-> kb,
             porK |-> [kk \in 2..3 |->
                         Finales(kk, IF kk = 2 THEN e2 ELSE e3, kb)]] :
               kb \in 1..2,
               e2 \in MergeBeams(txt, 2),
               e3 \in MergeBeams(txt, 3)} :
            txt \in MergeTextos}

MergeInit ==
    /\ b_args \in MergeArgs
    /\ n_cols = 0 /\ candidatos = <<>>
    /\ b_n = 0 /\ estados = <<>> /\ paso = 0
    /\ b_pc = "merge" /\ b_result = <<>> /\ b_exc = None

\* the column counts whose result list has reached the merge
Llegados == {candidatos[i].n : i \in 1..Len(candidatos)}

\* search_n 195-196: the result list of the worker for kk joins candidatos
MergeLlega(kk) ==
    /\ b_pc = "merge"
    /\ kk \notin Llegados
    /\ ~GeometriaRechazada(Len(b_args.cipher), kk)
    /\ candidatos' = candidatos \o b_args.porK[kk]
    /\ UNCHANGED <<b_args, n_cols, b_n, estados, paso, b_pc, b_result, b_exc>>
    /\ UNCHANGED <<geomVars, codecVars, cribVars, extVars>>

\* search_n 197-198 once every worker has delivered: the single final sort
MergeTermina ==
    /\ b_pc = "merge"
    /\ Llegados = b_args.nmin..b_args.nmax
    /\ b_result' = Take(SortDesc(candidatos, LAMBDA x : x.sc), b_args.kbest)
    /\ b_pc' = "done"
    /\ UNCHANGED <<b_args, n_cols, candidatos, b_n, estados, paso, b_exc>>
    /\ UNCHANGED <<geomVars, codecVars, cribVars, extVars>>

MergeNext ==
    \/ \E kk \in 2..3 : MergeLlega(kk)
    \/ MergeTermina

InitMerge ==
    /\ MergeInit
    /\ GeomIdle /\ CodecIdle /\ CribIdle /\ ExtIdle

SpecMerge == InitMerge /\ [][MergeNext]_vars

(***************************************************************************)
(* Claims                                                                  *)
(***************************************************************************)

\* C2: round trip for every variant: for an A-Z plaintext P, a permutation O
\* and any (long_rule, col_direction), decoding the encoding of P with the
\* same order and variant gives P back, also when len(P) is not a multiple
\* of k.  (Refuted: the read rule cuts the ciphertext with other lengths
\* than the cyclic fill of the encoder produced.)
C2_RoundTripEveryVariant ==
    (/\ c_pc = "decoded" /\ IsAZ(c_P)
     /\ 2 <= Len(c_order) /\ Len(c_order) <= Len(c_P))
        => c_dec = c_P

\* C4: same-key decode under the down direction and the natural rule returns
\* the plaintext, for every A-Z plaintext and every permutation; the
\* 21-symbol scenario text with order [3,1,2] decodes back to itself.
C4_SameKeyDecodeDown ==
    (c_pc = "decoded" /\ IsAZ(c_P) /\ c_lr = "natural" /\ c_cd = "down")
        => /\ c_dec = c_P
           /\ (c_P = Quick /\ c_order = <<3, 1, 2>>) => c_enc = QuickCipher

C4_Witness ==
    /\ c_pc = "decoded" /\ c_lr = "natural" /\ c_cd = "down"
    /\ c_P = Quick /\ c_order = <<3, 1, 2>>
    /\ c_enc = QuickCipher /\ c_dec = Quick

\* the properties of one geometry that C9 states
GeometryOk(N, ncols, longs) ==
    /\ Len(longs) = ncols
    /\ SumSeq(longs) = N
    /\ \A c \in 1..ncols : longs[c] >= 0
    /\ \A c \in 1..ncols : longs[c] \in {N \div ncols, (N \div ncols) + 1}
    /\ Cardinality({c \in 1..ncols : longs[c] # N \div ncols}) = N % ncols

\* C9: for 2 <= k <= N and both remainder rules the column lengths sum to N,
\* none is negative, each is N div k or N div k + 1, and exactly N mod k
\* columns differ from the base length (both implementations).
C9_GeometrySum ==
    (2 <= g_k /\ g_k <= g_N) =>
        /\ "word" \in g_done => GeometryOk(g_N, g_k, g_longs)
        /\ "auto" \in g_done => GeometryOk(g_N, g_k, g_longs_auto)

C9_Witness ==
    /\ g_done = {"word", "auto"} /\ g_rule = "read"
    /\ g_N = 7 /\ g_k = 3 /\ g_order0 = <<2, 0, 1>>
    /\ g_longs = <<6 \div 3, 2, 3>>

\* C10: with r = N mod k the columns of length N div k + 1 are the columns
\* 0..r-1 under the natural rule and the first r columns of the reading
\* order under the read rule; N=30,k=5 gives [6,6,6,6,6] and N=32,k=5 gives
\* [7,7,6,6,6].
C10_LongColumnPlacement ==
    LET q == g_N \div g_k
        r == g_N % g_k
    IN  /\ "word" \in g_done =>
            /\ g_rule = "natural" =>
                  \A c \in 0..(g_k - 1) : (g_longs[c + 1] = q + 1) <=> (c < r)
            /\ g_rule = "read" =>
                  \A c \in 0..(g_k - 1) :
                     (g_longs[c + 1] = q + 1)
                        <=> (\E j \in 1..r : g_order0[j] = c)
            /\ (g_rule = "natural" /\ g_N = 30 /\ g_k = 5)
                  => g_longs = <<6, 6, 6, 6, 6>>
            /\ (g_rule = "natural" /\ g_N = 32 /\ g_k = 5)
                  => g_longs = <<7, 7, 6, 6, 6>>
        /\ "auto" \in g_done =>
            /\ \A c \in 0..(g_k - 1) : (g_longs_auto[c + 1] = q + 1) <=> (c < r)
            /\ (g_N = 30 /\ g_k = 5) => g_longs_auto = <<6, 6, 6, 6, 6>>
            /\ (g_N = 32 /\ g_k = 5) => g_longs_auto = <<7, 7, 6, 6, 6>>

C10_Witness ==
    /\ g_done = {"word", "auto"} /\ g_rule = "read"
    /\ g_N = 32 /\ g_k = 5 /\ g_order0 = <<4, 2, 0, 1, 3>>
    /\ g_longs = <<6, 6, 7, 6, 7>>
    /\ g_longs_auto = <<7, 7, 6, 6, 6>>

(***************************************************************************)
(* Reference definitions for the crib-search claims                        *)
(***************************************************************************)
\* the swept space in sweep order: k ascending, then the candidate
\* sequence, then long_rule, then col_direction
SweepTriples ==
    LET vs == Variants(long_rules, col_dirs)
    IN  Flatten([kk \in 1..(args.kmax - args.kmin + 1) |->
          LET cand == Candidatos(args.kmin + kk - 1, args.maxperms)
          IN  Flatten([t \in 1..Len(cand) |->
                 [v \in 1..Len(vs) |-> <<cand[t], vs[v][1], vs[v][2]>>]])])

\* the decode of the normalized ciphertext under a triple
DecodeOf(t) == descifrar_por_orden(C, t[1], t[2], t[3])

\* the triple passes both checks: crib contained, re-encryption exact
Passes(t) ==
    /\ Contains(DecodeOf(t), W)
    /\ cifrar_por_orden_var(DecodeOf(t), t[1], t[3]) = normalizar_AZ(args.texto)

\* the Solution a passing triple is emitted as
SolutionOf(t) ==
    [order |-> t[1], long_rule |-> t[2], col_dir |-> t[3], plain |-> DecodeOf(t)]

\* every Solution emitted so far, by explorar_permutaciones or by main
Emitted == {soluciones[i] : i \in 1..Len(soluciones)}
              \cup {sols_k[i] : i \in 1..Len(sols_k)}

\* a k sweep over positive column counts on non-empty normalized inputs
SweepRun ==
    /\ args.mode = "sweep"
    /\ args.kmin >= 1
    /\ normalizar_AZ(args.texto) # <<>>
    /\ normalizar_AZ(args.crib) # <<>>

\* C1: every Solution emitted by the crib search has a plaintext that
\* contains the crib and whose re-encryption under its order and
\* col_direction equals the normalized original ciphertext; an evaluated
\* candidate whose decode contains the crib but whose re-encryption differs
\* is never emitted; guardar_salida reports every solution as verified.
C1_OnlyVerifiedSolutions ==
    /\ \A s \in Emitted :
          /\ Contains(s.plain, normalizar_AZ(args.crib))
          /\ cifrar_por_orden_var(s.plain, s.order, s.col_dir)
                = normalizar_AZ(args.texto)
    /\ \A i \in 1..Len(evaluated) :
          LET t == evaluated[i]
          IN  (/\ ~DescifrarRaises(C, t[1], t[2])
               /\ Contains(DecodeOf(t), W)
               /\ cifrar_por_orden_var(DecodeOf(t), t[1], t[3])
                     # normalizar_AZ(args.texto))
                 => \A s \in Emitted :
                       <<s.order, s.long_rule, s.col_dir>> # t
    /\ \A i \in 1..Len(recifrado) : recifrado[i]

\* a finished sweep that emitted a Solution and rejected a candidate whose
\* decode contains the crib but does not re-encrypt to the ciphertext
C1_Witness ==
    /\ pc = "exit" /\ args.mode = "sweep" /\ soluciones # <<>>
    /\ Len(recifrado) = Len(soluciones)
    /\ \E i \in 1..Len(evaluated) :
          /\ Contains(DecodeOf(evaluated[i]), W)
          /\ cifrar_por_orden_var(DecodeOf(evaluated[i]), evaluated[i][1],
                                  evaluated[i][3]) # C

\* C3: planted key: for a plaintext P containing the crib, a permutation O
\* of k columns (2 <= k <= N) and a variant V, the exhaustive sweep without
\* stop-on-first-match over a range including k, with a variant set that
\* includes V, on C = encode(P, O, V) returns a Solution whose plaintext is
\* P.  (Refuted when the variant set holds the read rule only.)
C3_PlantedKeyFound ==
    (/\ pc = "exit" /\ SweepRun
     /\ ~args.stopfirst /\ args.maxperms = DefaultMaxPerms)
       => \A kk \in args.kmin..args.kmax :
            \A O \in Orders1(kk) :
              \A d \in {col_dirs[i] : i \in 1..Len(col_dirs)} :
                \A P \in Texts({"A", "B"}, Len(C), Len(C)) :
                   (/\ 2 <= kk /\ kk <= Len(P)
                    /\ Contains(P, W)
                    /\ cifrar_por_orden_var(P, O, d) = C)
                      => \E s \in Emitted : s.plain = P

\* the first passing triple of the swept space, 0 when there is none
FirstPassing ==
    LET T == SweepTriples
    IN  IF \E i \in 1..Len(T) : Passes(T[i])
        THEN CHOOSE i \in 1..Len(T) :
                Passes(T[i]) /\ \A j \in 1..(i - 1) : ~Passes(T[j])
        ELSE 0

\* C5: with stop-on-first-match the sweep ends at the first verified
\* Solution: at every moment the candidates evaluated so far are a prefix of
\* the sweep order that stops at the first passing one, and the finished
\* sweep holds exactly that one Solution (none when no candidate passes,
\* and then the whole space was evaluated).
C5_StopOnFirstMatch ==
    (SweepRun /\ args.stopfirst /\ pc \notin {"start", "dispatch"}) =>
        LET T == SweepTriples
            f == FirstPassing
        IN  /\ Len(evaluated) <= Len(T)
            /\ evaluated = SubSeq(T, 1, Len(evaluated))
            /\ f > 0 => Len(evaluated) <= f
            /\ pc \in {"report", "exit"} =>
                  IF f > 0
                  THEN /\ soluciones = <<SolutionOf(T[f])>>
                       /\ Len(evaluated) = f
                  ELSE /\ soluciones = <<>>
                       /\ evaluated = T

\* a finished stop-on-first-match sweep whose single Solution was found at
\* k = 2 under the second long_rule, with k = 3 still to come in the range
C5_Witness ==
    /\ pc = "exit" /\ SweepRun /\ args.stopfirst
    /\ args.kmin = 1 /\ args.kmax = 3
    /\ args.long_rule = "both" /\ args.col_dir = "both"
    /\ Len(soluciones) = 1
    /\ Len(soluciones[1].order) = 2
    /\ FirstPassing > 5
    /\ Len(evaluated) = FirstPassing
    /\ Len(evaluated) < Len(SweepTriples)

RangoValido ==
    \E n \in b_args.nmin..b_args.nmax :
        ~GeometriaRechazada(Len(b_args.cipher), n)

\* lst is sorted by score, best first
Descendente(lst) ==
    \A i \in 1..(Len(lst) - 1) : ~ScoreLess(lst[i].sc, lst[i + 1].sc)

\* the exhaustive scorer: the length-normalized score of the decode under
\* every permutation of the n columns
ExhaustiveScores(cipher, n) ==
    {LET plain == leer_por_filas(
                     asignar_columnas(cipher, n, [i \in 1..n |-> p[i] - 1]))
     IN  ScoreDiv(score_text(plain), Len(plain)) : p \in Orders1(n)}

\* C7: for a non-empty ciphertext and a range holding a k with valid
\* geometry, search_n completes without raising and returns at most kbest
\* results, sorted by final score descending, that are the best kbest of
\* the merged per-k results.  (Refuted: beam_search raises IndexError in its
\* first step for every accepted k.)
C7_SearchNReturnsTopKbest ==
    (/\ b_pc = "done" /\ b_args.entry = "search_n"
     /\ b_args.cipher # <<>> /\ RangoValido)
       => /\ b_exc = None
          /\ Len(b_result) = Min2(b_args.kbest, Len(candidatos))
          /\ Descendente(b_result)
          /\ b_result = Take(SortDesc(candidatos, LAMBDA x : x.sc), b_args.kbest)

\* C8: for 2 <= k <= 6 columns with valid geometry, beam_search with beam
\* width k! returns as its top result an (order, plaintext, score) whose
\* score is the best length-normalized score over all permutations of the
\* columns and whose plaintext is the decode under its order.  (Refuted:
\* beam_search raises IndexError instead of returning.)
C8_BeamEqualsExhaustive ==
    (/\ b_pc = "done" /\ b_args.entry = "beam_search"
     /\ 2 <= b_args.n /\ b_args.n <= 6
     /\ ~GeometriaRechazada(Len(b_args.cipher), b_args.n)
     /\ b_args.beam = Factorial(b_args.n))
       => /\ b_exc = None
          /\ b_result # <<>>
          /\ b_result[1].sc \in ExhaustiveScores(b_args.cipher, b_args.n)
          /\ \A sc \in ExhaustiveScores(b_args.cipher, b_args.n) :
                ~ScoreLess(b_result[1].sc, sc)
          /\ b_result[1].plain =
                leer_por_filas(asignar_columnas(b_args.cipher, b_args.n,
                                                b_result[1].orden))

(***************************************************************************)
(* Reference definitions for the geometry rejection of the beam sweep     *)
(***************************************************************************)
\* column count ncols is invalid for a text of N symbols: below 2, above N,
\* or the shortest column (N div ncols) is below the floor
Rechazado(N, ncols) ==
    IF ncols < 2 THEN TRUE
    ELSE ncols > N \/ N \div ncols < MinColumna

\* search_n is running or has run
EnSearchN == b_args.entry = "search_n" /\ b_pc \in {"search", "beam", "done"}

\* C11 (state part): beam_search only ever runs for a column count that is
\* not rejected, no rejected count has an entry in candidatos, and when every
\* count of the range is rejected the search returns the empty list without
\* an exception and main writes the "no hypotheses" line and ends normally.
C11_Estado ==
    /\ (EnSearchN /\ b_pc = "beam")
          => ~Rechazado(Len(b_args.cipher), b_n)
    /\ EnSearchN
          => \A t \in 1..Len(candidatos) :
                 ~Rechazado(Len(b_args.cipher), candidatos[t].n)
    /\ (/\ EnSearchN /\ b_pc = "done"
        /\ \A m \in b_args.nmin..b_args.nmax : Rechazado(Len(b_args.cipher), m))
          => /\ b_exc = None
             /\ b_result = <<>>
             /\ a_pc = "exit" =>
                   /\ a_exit = ExitOk
                   /\ a_salida.texto = "No se encontraron hipotesis plausibles."

\* C11 (step part): at a rejected column count the sweep moves on to the
\* next count without calling beam_search, adding a result or raising.
C11_Paso ==
    (/\ EnSearchN /\ b_pc = "search" /\ n_cols <= b_args.nmax
     /\ Rechazado(Len(b_args.cipher), n_cols))
       => /\ b_pc' = "search"
          /\ n_cols' = n_cols + 1
          /\ candidatos' = candidatos
          /\ estados' = estados
          /\ b_exc' = None

\* C11: in the beam-search sweep every column count k with k < 2, k > N or a
\* shortest column below the floor 3 is rejected: beam_search is never run
\* for it, it contributes no result and the sweep continues; when every k of
\* [nmin, nmax] is rejected the search returns an empty result set and
\* raises no error.
C11_InvalidGeometrySkipped == []C11_Estado /\ [][C11_Paso]_vars

\* main has swept a range that holds a count within 2..N rejected only for
\* its short columns, and has reported that there is no hypothesis
C11_Witness ==
    /\ a_pc = "exit"
    /\ a_salida.texto = "No se encontraron hipotesis plausibles."
    /\ b_result = <<>>
    /\ \E m \in b_args.nmin..b_args.nmax :
          /\ 2 <= m /\ m <= Len(b_args.cipher)
          /\ Len(b_args.cipher) \div m < MinColumna
    /\ \E m \in b_args.nmin..b_args.nmax : m < 2

(***************************************************************************)
(* Reference definitions for the input checks of the crib search          *)
(***************************************************************************)
\* a column count outside [2, N] for the normalized ciphertext
FueraDeRango(ncols) == ncols < 2 \/ ncols > Len(C)

\* the run asks for a column count outside [2, N]: in its kmin..kmax range,
\* or as the length of its explicit order or keyword
PideKFuera ==
    IF args.mode = "sweep"
    THEN \E kk \in args.kmin..args.kmax : FueraDeRango(kk)
    ELSE IF args.mode = "order" THEN FueraDeRango(Len(args.order))
    ELSE FueraDeRango(Len(normalizar_AZ(args.keyword)))

\* C12: a crib search whose column count k is outside [2, N] (from the
\* kmin..kmax range or from the length of an explicit order or keyword) is
\* reported to the caller as invalid input and never silently processed: no
\* candidate of such a k is decoded, no Solution of such a k is emitted, and
\* the run ends with the error status and no Solution.  (Refuted: k = 1 and
\* k > N are decoded, verified and emitted like any other k.)
C12_KOutOfRangeReported ==
    /\ \A i \in 1..Len(evaluated) : ~FueraDeRango(Len(evaluated[i][1]))
    /\ \A sol \in Emitted : ~FueraDeRango(Len(sol.order))
    /\ (pc = "exit" /\ C # <<>> /\ W # <<>> /\ PideKFuera)
          => exit_status = ExitError /\ soluciones = <<>>

\* the crib tool was given a ciphertext or a crib that normalizes to nothing
CribEntradaVacia ==
    /\ args.mode # "idle"
    /\ normalizar_AZ(args.texto) = <<>> \/ normalizar_AZ(args.crib) = <<>>

\* the beam tool was given a ciphertext that normalizes to nothing
AutoEntradaVacia ==
    /\ a_argv.mode # "idle"
    /\ normalizar(a_argv.texto) = <<>>

\* C13: if the ciphertext is empty after normalization (both tools) or the
\* crib is empty after normalization (crib tool), the call is aborted with
\* an input error before any decode, permutation generation or beam step
\* runs, and no Solution is reported.
C13_EmptyInputAborts ==
    /\ CribEntradaVacia
          => /\ pc \in {"start", "exit"}
             /\ evaluated = <<>> /\ perms = <<>> /\ k = 0
             /\ soluciones = <<>> /\ sols_k = <<>> /\ recifrado = <<>>
             /\ pc = "exit" =>
                   /\ message = "Error: criptograma o crib vacio"
                   /\ exit_status = ExitError
    /\ AutoEntradaVacia
          => /\ a_pc \in {"start", "exit"}
             /\ b_pc = "idle" /\ b_args.entry = "idle"
             /\ estados = <<>> /\ candidatos = <<>> /\ b_result = <<>>
             /\ a_pc = "exit" =>
                   /\ a_salida.texto = "Error: criptograma vacio tras normalizar."
                   /\ a_salida.datos = <<>>
                   /\ a_exit = ExitError

\* the beam tool has aborted on a text without any letter
C13_Witness ==
    /\ AutoEntradaVacia /\ a_argv.texto # <<>>
    /\ a_pc = "exit" /\ a_exit = ExitError

(***************************************************************************)
(* Reference definitions for candidate generation                          *)
(***************************************************************************)
\* seq is a permutation of 1..m
EsPermutacion(seq, m) ==
    Len(seq) = m /\ {seq[i] : i \in 1..m} = 1..m

\* m! counted as the number of permutations of 1..m
NumPermutaciones(m) == Cardinality(Permutations(1..m))

\* explorar_permutaciones is running for a positive column count
Explorando == pc = "explorar" /\ k >= 1

\* C14: when k! does not exceed the ceiling maxperms (in particular for
\* every k <= 8 with the default ceiling 200000) the candidate sequence
\* consists of exactly k! pairwise distinct permutations of 1..k; when k!
\* exceeds the ceiling it consists of exactly maxperms candidates drawn by
\* the seeded generator, each a permutation of 1..k; in both modes at most
\* maxperms candidates are evaluated per k.
C14_CandidateGeneration ==
    /\ 2 * 3 * 4 * 5 * 6 * 7 * 8 <= DefaultMaxPerms
    /\ Explorando =>
          /\ \A i \in 1..Len(perms) : EsPermutacion(perms[i], k)
          /\ Len(perms) <= args.maxperms
          /\ pi - 1 <= Len(perms)
          /\ IF NumPermutaciones(k) <= args.maxperms
             THEN /\ Len(perms) = NumPermutaciones(k)
                  /\ \A i, j \in 1..Len(perms) : i # j => perms[i] # perms[j]
             ELSE Len(perms) = args.maxperms

\* the sweep is sampling: 3! exceeds the small ceiling, and every sampled
\* candidate has been tried
C14_Witness ==
    /\ Explorando /\ k = 3
    /\ NumPermutaciones(k) > args.maxperms
    /\ Len(perms) = args.maxperms
    /\ pi = Len(perms) + 1

(***************************************************************************)
(* Reference definitions for the reproducibility of sampling              *)
(***************************************************************************)
\* what a fresh process draws at position i for ncols columns after
\* random.seed(42)
DrawFresco(ncols, i) == SampleTable[ncols][i]

\* the candidate sequence cand of a call for ncols columns is the one a
\* fresh seeded run produces, position by position
Reproducible(ncols, cand) ==
    \A i \in 1..Len(cand) : cand[i] = DrawFresco(ncols, i)

\* the call for ncols columns samples
Muestrea(ncols) == NumPermutaciones(ncols) > r_args.maxperms

\* C15: sampling is reproducible: with the same seed, the same k and the
\* same sample count the sampled search produces the same sequence of
\* candidate orders in the same positions (and so the same Solutions in the
\* same order), also when the sweep has already sampled for other k values
\* before; the full sequence is the one the crib sweep evaluates.
C15_SamplingReproducible ==
    /\ r_pc = "muestra" => Reproducible(r_k, r_perms)
    /\ \A h \in 1..Len(r_hist) :
          Muestrea(r_hist[h].ncols) =>
             /\ Reproducible(r_hist[h].ncols, r_hist[h].perms)
             /\ Len(r_hist[h].perms) = r_args.maxperms =>
                   r_hist[h].perms = Candidatos(r_hist[h].ncols, r_args.maxperms)

\* the sweep sampled for k = 3, stopped that call early, and then sampled
\* its full budget for k = 4
C15_Witness ==
    /\ Len(r_hist) >= 2
    /\ \E h \in 1..(Len(r_hist) - 1) :
          /\ r_hist[h].ncols = 3 /\ Muestrea(3)
          /\ Len(r_hist[h].perms) < r_args.maxperms
          /\ r_hist[h + 1].ncols = 4
          /\ Len(r_hist[h + 1].perms) = r_args.maxperms
          /\ r_args.maxperms >= 2

(***************************************************************************)
(* Reference definitions for the keyword and cipher-tool claims           *)
(***************************************************************************)
\* the letters of a raw word, upper-cased, everything else dropped
Letras(palabra) ==
    SelectSeq([i \in 1..Len(palabra) |-> Upper(palabra[i])],
              LAMBDA ch : ch \in AZ)

\* 1-based alphabetical rank of 0-based position i of the word w, equal
\* letters ranked left to right
Rango(w, i) ==
    1 + Cardinality({j \in 0..(Len(w) - 1) :
            \/ LetterIdx(w[j + 1]) < LetterIdx(w[i + 1])
            \/ (w[j + 1] = w[i + 1] /\ j < i)})

\* orden lists the 0-based position holding rank 1, then rank 2, ...
EsOrdenDeLectura(orden, w) ==
    /\ Len(orden) = Len(w)
    /\ {orden[r] : r \in 1..Len(orden)} = 0..(Len(w) - 1)
    /\ \A r \in 1..Len(orden) : Rango(w, orden[r]) = r

\* C16: for every keyword, keyword_to_order_read returns the 0-based
\* positions of its normalized letters sorted by (letter, original
\* position): the position holding rank 1, then rank 2, ...; the result is a
\* permutation of 0..n-1, and the implementations of auto_transpo.py and
\* transposition_word.py return the same order.
C16_KeywordOrder ==
    /\ "word" \in t_done
          => EsOrdenDeLectura(t_order_word, Letras(t_args.clave))
    /\ "auto" \in t_done
          => /\ EsOrdenDeLectura(t_order_auto, Letras(t_args.clave))
             /\ t_order_auto = t_order_word

\* both conversions have run on a key with a repeated letter whose order
\* differs from its ranks
C16_Witness ==
    /\ "auto" \in t_done
    /\ t_args.clave = <<"B", "B", "A">>
    /\ t_order_auto = <<2, 0, 1>>
    /\ t_order_word = <<2, 0, 1>>

\* C19: for the alphabetic key ROMA, derivar_clave_numerica returns the
\* numeric key 3 2 4 1, the worked example of the extended help.  (Refuted:
\* it returns 4 3 2 1, the alphabetical ranks of R, O, M, A.)
C19_RomaExample ==
    ("clave" \in t_done /\ Letras(t_args.clave) = AyudaEjemploClave)
       => t_clave_num = AyudaEjemplo

\* number of X symbols that complete the last row of a text of m symbols
\* written in rows of ncols
Relleno(m, ncols) == (ncols - (m % ncols)) % ncols

\* C20: for every A-Z text T and every non-empty key,
\* descifrar_columnar(cifrar_columnar(T, key), key) equals T followed by
\* exactly the X padding that completes the last row, and equals T when
\* len(T) is a multiple of the column count.
C20_ToolRoundTrip ==
    LET T == Letras(t_args.texto)
        ncols == Len(Letras(t_args.clave))
    IN  /\ ("cifrar" \in t_done /\ ncols > 0)
              => /\ t_exc = None
                 /\ Len(t_enc) = Len(T) + Relleno(Len(T), ncols)
        /\ ("descifrar" \in t_done /\ ncols > 0)
              => /\ t_dec = T \o [i \in 1..Relleno(Len(T), ncols) |-> "X"]
                 /\ Len(T) % ncols = 0 => t_dec = T

\* a text of 4 symbols under a 3-column key with a repeated letter has been
\* encrypted and decrypted, and came back with two X appended
C20_Witness ==
    /\ "descifrar" \in t_done
    /\ t_args.clave = <<"B", "A", "B">>
    /\ t_args.texto = <<"A", "X", "X", "A">>
    /\ t_enc # t_dec
    /\ t_dec = <<"A", "X", "X", "A", "X", "X">>

(***************************************************************************)
(* Reference definitions for the scoring claims                            *)
(***************************************************************************)
\* the value the table in force has for a 3-symbol window, the default
\* floor when the window is absent from it
ValorVentana(ventana) ==
    IF ventana \in DOMAIN TRI.over THEN TRI.over[ventana]
    ELSE IF TRI.az /\ IsAZ(ventana) THEN -18
    ELSE TRI_DEF

\* sum of the values of the first m windows of s_in
RECURSIVE SumaHasta(_)
SumaHasta(m) ==
    IF m <= 0 THEN 0
    ELSE ValorVentana(<<s_in[m], s_in[m + 1], s_in[m + 2]>>) + SumaHasta(m - 1)

\* C17: score_text returns the fixed sentinel (-1e9) for every input shorter
\* than 3 symbols; for every longer input it returns the sum, over all
\* len-2 overlapping 3-symbol windows, of the table value of that trigram,
\* using the default floor for every trigram absent from the table.
C17_ScoreText ==
    s_pc = "done" =>
       /\ Len(s_in) < 3 => s_out = [u |-> -2, n |-> 0, d |-> 1]
       /\ Len(s_in) >= 3 =>
             s_out = [u |-> 0, n |-> SumaHasta(Len(s_in) - 2), d |-> 1]
       /\ tri_args.path = "none" => s_out = score_text(s_in)

\* a 4-symbol text scored with a loaded one-row table: the window ARA has
\* its table value -2.0, the window RAA is absent and gets the floor -4.0
C17_Witness ==
    /\ s_pc = "done"
    /\ s_in = <<"A", "R", "A", "A">>
    /\ DOMAIN TRI.over = {<<"A", "R", "A">>} /\ ~TRI.az
    /\ TRI_DEF = -8
    /\ s_out = [u |-> 0, n |-> -12, d |-> 1]

\* the --trigrams file cannot be used: it is missing or unreadable, or it
\* has a row whose log-probability field is not a number
TablaInservible ==
    \/ tri_args.path = "falta"
    \/ /\ tri_args.path = "archivo"
       /\ \E i \in 1..Len(tri_args.filas) :
             /\ tri_args.filas[i].campos >= 3
             /\ Len(tri_args.filas[i].tri) = 3
             /\ ~tri_args.filas[i].num

\* C18: loading the trigram table never aborts the run: if the path is
\* absent, the file unreadable or malformed (a row whose log-probability
\* field is not a number), cargar_trigramas returns the fallback uniform
\* model and the search proceeds.  (Refuted: the rows read before the
\* malformed one stay in the table, which is returned instead of the
\* fallback.)
C18_FallbackOnBadTable ==
    (s_pc \in {"cargado", "done"} /\ (tri_args.path = "none" \/ TablaInservible))
       => TRI = TablaFallback /\ TRI_DEF = DefFallback

\* C21: in every beam-search transition the partial reconstruction is built
\* from the columns assigned so far only: an unassigned (still empty) column
\* is never read, so no extension step indexes into an empty column and no
\* step raises, at any step of any k >= 2.  (Refuted: the partial read runs
\* over all n columns, so the first extension of any non-empty ciphertext
\* with n >= 2 indexes an empty column.)
C21_PartialReadAssignedOnly ==
    /\ b_exc # "IndexError"
    /\ (b_pc = "beam" /\ paso < b_n /\ b_n >= 2) =>
          LET exts == Extensiones(b_args.cipher, b_n,
                          longitudes_columnas_auto(Len(b_args.cipher), b_n),
                          estados)
          IN  \A t \in 1..Len(exts) : ~ParcialRaises(exts[t])

\* the triples evaluated so far whose order is a permutation of its k >= 1
\* columns and whose long rule is natural
NaturalEvaluadas ==
    {t \in {evaluated[i] : i \in 1..Len(evaluated)} :
        /\ t[2] = "natural"
        /\ Len(t[1]) >= 1
        /\ EsPermutacion(t[1], Len(t[1]))}

\* C22: under the natural rule the re-encryption check never rejects: for
\* the ciphertext C, every permutation O of k columns and each
\* col_direction d, cifrar_por_orden_var(descifrar_por_orden(C, O, natural,
\* d), O, d) = C, so every natural-rule decode that contains the crib is
\* accepted as a Solution.
C22_NaturalNeverRejected ==
    \A t \in NaturalEvaluadas :
        /\ cifrar_por_orden_var(descifrar_por_orden(C, t[1], "natural", t[3]),
                                t[1], t[3]) = C
        /\ Contains(DecodeOf(t), W) => SolutionOf(t) \in Emitted

\* a finished run on an asymmetric ciphertext that accepted a natural-rule
\* decode read bottom-up under a non-identity permutation
C22_Witness ==
    /\ pc = "exit"
    /\ C = <<"A", "B", "B">>
    /\ \E i \in 1..Len(soluciones) :
          /\ soluciones[i].long_rule = "natural"
          /\ soluciones[i].col_dir = "up"
          /\ soluciones[i].order = <<2, 1>>
          /\ soluciones[i].plain # C

\* C23: every Solution accepted with long_rule = read has a plaintext
\* identical to the natural-rule decode of the same ciphertext under the
\* same order and col_direction.
C23_ReadSolutionsAreNatural ==
    \A s \in Emitted :
        s.long_rule = "read" =>
            /\ ~DescifrarRaises(C, s.order, "natural")
            /\ s.plain = descifrar_por_orden(C, s.order, "natural", s.col_dir)

\* a read-rule Solution accepted although the read rule cuts the columns
\* differently from the natural rule (N is not a multiple of k and the
\* order is not the identity)
C23_Witness ==
    \E i \in 1..Len(soluciones) :
        LET s == soluciones[i]
            m == Len(s.order)
        IN  /\ s.long_rule = "read"
            /\ EsPermutacion(s.order, m)
            /\ longitudes_columnas(Len(C), m, [j \in 1..m |-> s.order[j] - 1], "read")
                  # longitudes_columnas(Len(C), m, [j \in 1..m |-> s.order[j] - 1], "natural")

\* hypothesis e holds exactly p pairwise distinct column indices; its cursor
\* is the sum of the geometry lengths of its assigned columns, and these
\* hold consecutive non-overlapping slices of the ciphertext in assignment
\* order (so the cursor is N once all n columns are assigned)
HipotesisOk(e, p) ==
    LET N == Len(b_args.cipher)
        longs == longitudes_columnas_auto(N, b_n)
        pre[m \in 0..Len(e.orden)] ==
            IF m = 0 THEN 0 ELSE pre[m - 1] + longs[e.orden[m] + 1]
    IN  /\ Len(e.orden) = p
        /\ \A i \in 1..p : e.orden[i] \in 0..(b_n - 1)
        /\ \A i, j \in 1..p : i # j => e.orden[i] # e.orden[j]
        /\ e.cursor = pre[p]
        /\ \A i \in 1..p :
              e.cols[e.orden[i] + 1] =
                 [t \in 1..longs[e.orden[i] + 1] |-> b_args.cipher[pre[i - 1] + t]]
        /\ p = b_n => e.cursor = N

PrimerosDescendente(r, lst, m, sc(_)) ==
    /\ Len(r) = Min2(m, Len(lst))
    /\ \E f \in [1..Len(r) -> 1..Len(lst)] :
          /\ \A i \in 1..Len(r) : r[i] = lst[f[i]]
          /\ \A i, j \in 1..Len(r) :
                i < j =>
                   /\ f[i] # f[j]
                   /\ ~ScoreLess(sc(lst[f[i]]), sc(lst[f[j]]))
                   /\ ~ScoreLess(sc(lst[f[j]]), sc(lst[f[i]])) => f[i] < f[j]
          /\ \A i \in 1..Len(r) :
                \A j \in 1..Len(lst) \ {f[t] : t \in 1..Len(r)} :
                   /\ ~ScoreLess(sc(lst[f[i]]), sc(lst[j]))
                   /\ ~ScoreLess(sc(lst[j]), sc(lst[f[i]])) => f[i] < j

\* C25: pruning: after all extensions of a step are generated, the next
\* beam is the first B of them in descending order of accumulated score,
\* extensions of equal score keeping their generation order (the sort is
\* stable); the beam is a function of the extensions and B alone.
C25_PruningStableTopB ==
    b_pc = "podado" =>
        PrimerosDescendente(estados, b_args.nuevos, b_args.beam, LAMBDA x : x.punt)

\* three extensions, the first scoring least and the other two equal under
\* different float representations, cut to a beam of two: the equal pair
\* survives in generation order
C25_Witness ==
    /\ b_pc = "podado" /\ b_args.beam = 2 /\ Len(b_args.nuevos) = 3
    /\ b_args.nuevos[1].punt = [u |-> 0, n |-> -5, d |-> 1]
    /\ b_args.nuevos[2].punt = [u |-> 0, n |-> -8, d |-> 2]
    /\ b_args.nuevos[3].punt = [u |-> 0, n |-> -4, d |-> 1]
    /\ estados = <<b_args.nuevos[2], b_args.nuevos[3]>>

\* C26: beam_search terminates after exactly k extension steps for every
\* ciphertext with valid geometry and beam >= 1: every surviving hypothesis
\* has a complete order, every full decode has length N, and it returns at
\* most topk results ordered by length-normalized score.  (Refuted: for
\* k >= 2 the call ends in its first step with IndexError.)
C26_BeamSearchTerminates ==
    (/\ b_pc = "done" /\ b_args.entry = "beam_search"
     /\ ~Rechazado(Len(b_args.cipher), b_args.n)
     /\ b_args.beam >= 1)
       => /\ b_exc = None
          /\ paso = b_args.n
          /\ \A i \in 1..Len(estados) :
                {estados[i].orden[t] : t \in 1..Len(estados[i].orden)}
                   = 0..(b_args.n - 1)
          /\ Len(b_result) <= b_args.kbest
          /\ Len(b_result) >= 1
          /\ \A i \in 1..Len(b_result) :
                Len(b_result[i].plain) = Len(b_args.cipher)
          /\ Descendente(b_result)

\* the Solutions of all passing triples of the swept space, in discovery
\* order
TodasLasQuePasan ==
    LET pass == SelectSeq(SweepTriples, Passes)
    IN  [i \in 1..Len(pass) |-> SolutionOf(pass[i])]

\* C27: without stop-on-first-match a candidate that fails a check is
\* dropped and never ends the sweep: the result is exactly the sequence of
\* all (order, long_rule, col_direction) triples of the swept space that
\* pass both checks, once per passing variant, in discovery order (k
\* ascending, candidate order within k, long_rule outer and col_direction
\* inner within a candidate).
C27_AllPassingInDiscoveryOrder ==
    (SweepRun /\ ~args.stopfirst) =>
        LET full == TodasLasQuePasan
            sofar == soluciones \o sols_k
        IN  /\ Len(sofar) <= Len(full)
            /\ sofar = SubSeq(full, 1, Len(sofar))
            /\ pc \in {"report", "exit"} => soluciones = full

\* a finished sweep without stop-on-first-match that dropped a failing
\* triple before a passing one and returned Solutions of two column counts
C27_Witness ==
    /\ pc = "exit" /\ SweepRun /\ ~args.stopfirst
    /\ Len(soluciones) >= 3
    /\ \E i, j \in 1..Len(soluciones) :
          Len(soluciones[i].order) < Len(soluciones[j].order)
    /\ \E i, j \in 1..Len(SweepTriples) :
          i < j /\ ~Passes(SweepTriples[i]) /\ Passes(SweepTriples[j])

\* C28: the order of every Solution is a permutation of 1..k, in all three
\* modes (generated candidate, keyword-derived, explicit order): an
\* explicit order with a repeated or out-of-range index never ends up in an
\* emitted Solution.  (Refuted: index 0 wraps to the last column in both
\* the decoder and the encoder, so an explicit order holding it is verified
\* and emitted.)
C28_SolutionOrdersArePermutations ==
    \A s \in Emitted : EsPermutacion(s.order, Len(s.order))

\* C29: interoperability of the cipher tool and the solver: for every
\* non-empty key K and A-Z text T, cifrar_columnar(T,
\* derivar_clave_numerica(K)) decoded by the solver's direct keyword path
\* (asignar_columnas with keyword_to_order_read(K), then leer_por_filas)
\* yields T followed by its X padding.
C29_ToolSolverInterop ==
    LET T == Letras(t_args.texto)
        ncols == Len(Letras(t_args.clave))
    IN  ("solver" \in t_done /\ ncols > 0)
           => t_sol = T \o [i \in 1..Relleno(Len(T), ncols) |-> "X"]

\* a text of 4 symbols encrypted under a 3-column key with a repeated
\* letter and decoded by the solver's keyword path: the ciphertext differs
\* from the text, the decode is the text with two X appended
C29_Witness ==
    /\ "solver" \in t_done
    /\ t_args.clave = <<"B", "B", "A">>
    /\ t_args.texto = <<"A", "X", "X", "A">>
    /\ t_enc = <<"X", "X", "A", "A", "X", "X">>
    /\ t_sol = <<"A", "X", "X", "A", "X", "X">>

\* the ranking of the sequential run: the result lists merged in ascending
\* column count, then the single final sort
RankingSecuencial ==
    Take(SortDesc(b_args.porK[2] \o b_args.porK[3], LAMBDA x : x.sc),
         b_args.kbest)

====
